---- MODULE Spec2Model ----
(***************************************************************************)
(* Cronograma (timeline) extraction engine of dou-monitor:                 *)
(* src/src/extraction/cronograma_parser.py.                                *)
(*                                                                         *)
(* A text is a sequence of lexemes.  A lexeme is a record                  *)
(*   [k |-> kind, v |-> value, lo |-> first char kept, hi |-> end char]    *)
(* whose character length is hi - lo.  A whole lexeme has lo = 0 and       *)
(* hi = TokLen(k); slicing a text by character offsets, as Python's        *)
(* text[a:b] does, may keep only the part lo..hi of its first or last      *)
(* lexeme.  A date lexeme "DD/MM/YYYY" carries its eight digits as the     *)
(* number DDMMYYYY; an ISO date "YYYY-MM-DD" is the number YYYYMMDD.       *)
(* In the name of a word kind a capital letter inside the word stands for  *)
(* the accented letter ("inscriCAo" is "inscrição", "PerIodo_de" is        *)
(* "Período de"); "_" stands for a space.                                  *)
(***************************************************************************)
EXTENDS Integers, Sequences, FiniteSets, TLC

\* Python's None (cronograma_parser.py:38, "return None").
NULL == 0

(***************************************************************************)
(* Lexemes                                                                 *)
(***************************************************************************)

\* Character length of each kind of lexeme (the text it stands for is given
\* on the right).
TokLen(k) ==
    CASE k = "date"          -> 10   \* DD/MM/YYYY
      [] k = "sp"            -> 1    \* " "
      [] k = "tab"           -> 1    \* "\t"
      [] k = "nl"            -> 1    \* "\n"
      [] k = "a"             -> 1    \* "a"
      [] k = "A"             -> 1    \* "A"
      [] k = "e"             -> 1    \* "e"
      [] k = "Entre"         -> 5    \* "Entre"
      [] k = "entre"         -> 5    \* "entre"
      [] k = "colon"         -> 1    \* ":"
      [] k = "dot"           -> 1    \* "."
      [] k = "dash"          -> 1    \* "-"
      [] k = "url"           -> 19   \* "https://example.com"
      [] k = "nota"          -> 16   \* "Nota Informativa"
      [] k = "PerIodo_de"     -> 10   \* "Período de"
      [] k = "inscriCAo"     -> 9    \* "inscrição"
      [] k = "InscriCOes"    -> 10   \* "Inscrições"
      [] k = "IsenCAo"       -> 7    \* "Isenção"
      [] k = "isencao"       -> 7    \* "isencao"
      [] k = "inscricao"     -> 9    \* "inscricao"
      [] k = "num"           -> 1    \* "2"
      [] k = "Prova"         -> 5    \* "Prova"
      [] k = "prova"         -> 5    \* "prova"
      [] k = "objetiva"      -> 8    \* "objetiva"
      [] k = "AplicaCAo"     -> 9    \* "Aplicação"
      [] k = "RealizaCAo"    -> 10   \* "Realização"
      [] k = "da"            -> 2    \* "da"
      [] k = "Resultado"     -> 9    \* "Resultado"
      [] k = "HomologaCAo_do" -> 14   \* "Homologação do"
      [] k = "resultado"     -> 9    \* "resultado"
      [] k = "Recurso"       -> 7    \* "Recurso"
      [] k = "PublicaCAo"    -> 10   \* "Publicação"
      [] k = "aprovados"     -> 9    \* "aprovados"
      [] k = "Edital"        -> 6    \* "Edital"
      [] k = "CRONOGRAMA"    -> 10   \* "CRONOGRAMA"
      [] k = "ANEXO"         -> 5    \* "ANEXO"
      [] k = "Lorem"         -> 60   \* a run of sixty letters, no keyword
      [] k = "INSCRICOES_long_s" -> 10 \* "INſCRIÇÕES", written with the long s U+017F
      [] k = "Filler"        -> 11900 \* a run of 11,900 letters, no keyword
      [] k = "Vagas"         -> 5    \* "Vagas"
      [] k = "Vaga"          -> 4    \* "Vaga"
      [] k = "Total_de_vagas" -> 14  \* "Total de vagas"
      [] k = "Vagas_totais"  -> 12   \* "Vagas totais"
      [] k = "Total"         -> 5    \* "Total"
      [] k = "PCD"           -> 3    \* "PCD"
      [] k = "PPI"           -> 3    \* "PPI"
      [] k = "cargo"         -> 5    \* "cargo"
      [] k = "Analista"      -> 8    \* "Analista"
      [] k = "Tecnico"       -> 7    \* "Tecnico"
      [] k = "FGV"           -> 3    \* "FGV"
      [] k = "Cebraspe"      -> 8    \* "Cebraspe"
      [] OTHER               -> 1

\* A whole lexeme of kind k, and a whole date lexeme with digits DDMMYYYY.
T(k) == [k |-> k, v |-> 0, lo |-> 0, hi |-> TokLen(k)]

DT(v) == [k |-> "date", v |-> v, lo |-> 0, hi |-> 10]

CLen(t) == t.hi - t.lo

IsWhole(t) == t.lo = 0 /\ t.hi = TokLen(t.k)

\* The substrings the code looks for inside a lower-cased word, as
\* <<keyword, offset in the word, length>>.  "isenCA" is "isençã", "aplicaC"
\* is "aplicaç", "realizaC" is "realizaç"; "reInsc15" is the regex
\* inscri[çc][ãõ], "reInscB" is inscri[çc][õo]es?, "reIsen" is isen[çc][ãa]o,
\* "reProvas" is provas?, "reAplic" is aplica[çc][ãa]o, "reRealiz" is
\* realiza[çc][ãa]o, "reObjetivas" is objetivas?, "reCrono" the heading
\* alternation of the section regex, "reAnexo" is ANEXO|CAPÍTULO.
\* With IGNORECASE the letter s of a pattern matches the long s as well,
\* while str.lower() leaves the long s as it is: a word written with it
\* holds the regex keywords and not the lower-case ones.
Feat(k) ==
    CASE k = "inscriCAo"  -> {<<"inscri", 0, 6>>, <<"reInsc15", 0, 8>>}
      [] k = "InscriCOes" -> {<<"inscri", 0, 6>>, <<"reInsc15", 0, 8>>, <<"reInscB", 0, 10>>}
      [] k = "INSCRICOES_long_s" -> {<<"reInsc15", 0, 8>>, <<"reInscB", 0, 10>>}
      [] k = "IsenCAo"    -> {<<"isen", 0, 4>>, <<"isenCA", 0, 6>>, <<"reIsen", 0, 7>>}
      [] k = "isencao"    -> {<<"isen", 0, 4>>, <<"isenc", 0, 5>>, <<"reIsen", 0, 7>>}
      [] k = "inscricao"  -> {<<"inscri", 0, 6>>, <<"inscric", 0, 7>>}
      [] k = "Prova"      -> {<<"prova", 0, 5>>, <<"reProvas", 0, 5>>}
      [] k = "prova"      -> {<<"prova", 0, 5>>, <<"reProvas", 0, 5>>}
      [] k = "aprovados"  -> {<<"prova", 1, 5>>, <<"reProvas", 1, 5>>}
      [] k = "objetiva"   -> {<<"reObjetivas", 0, 8>>}
      [] k = "AplicaCAo"  -> {<<"aplica", 0, 6>>, <<"aplicaC", 0, 7>>, <<"reAplic", 0, 9>>}
      [] k = "RealizaCAo" -> {<<"realiza", 0, 7>>, <<"realizaC", 0, 8>>, <<"reRealiz", 0, 10>>}
      [] k = "Resultado"  -> {<<"resultado", 0, 9>>}
      [] k = "resultado"  -> {<<"resultado", 0, 9>>}
      [] k = "Recurso"    -> {<<"recurso", 0, 7>>}
      [] k = "PublicaCAo" -> {<<"publica", 0, 7>>}
      [] k = "CRONOGRAMA" -> {<<"reCrono", 0, 10>>}
      [] k = "ANEXO"      -> {<<"reAnexo", 0, 5>>}
      [] OTHER            -> {}

\* Where keyword kw lies in the kept part of lexeme t (a set of offsets).
KwOffsets(t, kw) ==
    {f[2] : f \in {g \in Feat(t.k) : g[1] = kw /\ t.lo <= g[2] /\ g[2] + g[3] <= t.hi}}

HasKw(t, kw) == KwOffsets(t, kw) # {}

\* "kw in s" for a (lower-cased) text s.
Contains(s, kw) == \E i \in 1..Len(s) : HasKw(s[i], kw)

IsSpace(t) == t.k \in {"sp", "tab", "nl"}

IsDate(t) == t.k = "date" /\ IsWhole(t)

\* The least and the greatest number of a nonempty set.
Least(S) == CHOOSE a \in S : \A b \in S : a <= b

Greatest(S) == CHOOSE a \in S : \A b \in S : a >= b

Max(a, b) == IF a > b THEN a ELSE b

Min(a, b) == IF a < b THEN a ELSE b

\* The sequences of ss joined, in order (by halves, to keep evaluation shallow).
RECURSIVE Concat(_)
Concat(ss) ==
    IF Len(ss) = 0 THEN <<>>
    ELSE IF Len(ss) = 1 THEN ss[1]
    ELSE LET h == Len(ss) \div 2
         IN  Concat(SubSeq(ss, 1, h)) \o Concat(SubSeq(ss, h + 1, Len(ss)))

\* Offsets(s)[i] is the character offset at which lexeme i of s starts, for
\* i in 1..Len(s)+1 (the last one is the length of the text).
RECURSIVE Offsets(_)
Offsets(s) ==
    IF Len(s) = 0 THEN <<0>>
    ELSE IF Len(s) = 1 THEN <<0, CLen(s[1])>>
    ELSE LET h == Len(s) \div 2
             l == Offsets(SubSeq(s, 1, h))
             r == Offsets(SubSeq(s, h + 1, Len(s)))
         IN  l \o [i \in 1..(Len(r) - 1) |-> r[i + 1] + l[h + 1]]

\* Total character length of a text: len(s).
CharLen(s) == Offsets(s)[Len(s) + 1]

\* Character offset at which lexeme i of s starts (i may be Len(s)+1).
OffsetOf(s, i) == CharLen(SubSeq(s, 1, i - 1))

\* Python's s[from:to] on character offsets (0 <= from); lexemes cut by the
\* slice keep only the part inside it.
Slice(s, from, to) ==
    LET off == Offsets(s)
        Cut(i) == LET t == s[i]
                      a == Max(from - off[i], 0)
                      b == Min(to - off[i], CLen(t))
                  IN  [t EXCEPT !.lo = t.lo + a, !.hi = t.lo + b]
        Kept(t) == t.lo < t.hi
    IN  SelectSeq([i \in 1..Len(s) |-> Cut(i)] \o <<>>, Kept)

\* Python's str.strip(): leading and trailing whitespace removed.
Strip(s) ==
    LET keep == {i \in 1..Len(s) : ~IsSpace(s[i])}
    IN  IF keep = {} THEN <<>> ELSE SubSeq(s, Least(keep), Greatest(keep))

(***************************************************************************)
(* Regular expressions over lexemes.  A match is tried at a lexeme index   *)
(* and yields, in Python's backtracking order, the indices just after each *)
(* way of matching, with the spans <<first, next>> of the capture groups.  *)
(***************************************************************************)

\* Character classes of the patterns.
Is(c, t) ==
    CASE c = "date"   -> IsDate(t)                              \* \d{2}/\d{2}/\d{4}
      [] c = "s"      -> IsSpace(t)                             \* \s
      [] c = "S"      -> ~IsSpace(t)                            \* \S
      [] c = "blank"  -> t.k \in {"sp", "tab"}                  \* [ \t]
      [] c = "nl"     -> t.k = "nl"                             \* \n
      [] c = "notnl"  -> t.k # "nl"                             \* [^\n]
      [] c = "notdnl" -> t.k \notin {"nl", "date"}              \* [^\d\n]
      [] c = "a"      -> t.k = "a"                              \* a
      [] c = "aA"     -> t.k \in {"a", "A"}                     \* a, IGNORECASE
      [] c = "eaEA"   -> t.k \in {"e", "E", "a", "A"}           \* (?:e|a), IGNORECASE
      [] c = "entre"  -> t.k \in {"Entre", "entre"} /\ IsWhole(t)  \* Entre, IGNORECASE
      [] c = "url"    -> t.k = "url" /\ IsWhole(t)              \* https?://  or  www\.
      [] c = "nota"   -> t.k = "nota" /\ IsWhole(t)             \* Nota Informativa
      [] c = "punct"  -> t.k \in {"colon", "dash"}              \* [:\-–]
      [] c = "da"     -> t.k = "da" /\ IsWhole(t)               \* da
      [] c = "dot"    -> t.k = "dot"                            \* \.
      [] c = "num"    -> t.k = "num"                            \* \d
      [] c = "letter" -> t.lo = 0 /\ t.k \notin {"date", "sp", "tab", "nl", "colon",
                                                  "dot", "dash", "num"}  \* [A-Z], IGNORECASE
      [] OTHER        -> FALSE

\* Pattern constructors.
C(c) == [t |-> "c", c |-> c]

Star(c) == [t |-> "rep", c |-> c, min |-> 0, max |-> 0 - 1]

Plus(c) == [t |-> "rep", c |-> c, min |-> 1, max |-> 0 - 1]

AtLeast(n, c) == [t |-> "rep", c |-> c, min |-> n, max |-> 0 - 1]

\* A word holding keyword kw whose end is the end of the word.
KwEnd(kw) == [t |-> "kw", kw |-> kw, toEnd |-> TRUE, at0 |-> FALSE]

\* A word holding keyword kw, matched up to the end of the keyword.
Kw(kw) == [t |-> "kw", kw |-> kw, toEnd |-> FALSE, at0 |-> FALSE]

\* A word that starts with keyword kw.
Kw0(kw) == [t |-> "kw", kw |-> kw, toEnd |-> FALSE, at0 |-> TRUE]

\* A word holding keyword kw followed by [^\n]{0,max}.
KwLine(kw, max) == [t |-> "kwline", kw |-> kw, max |-> max, at0 |-> FALSE]

Opt(r) == [t |-> "opt", r |-> r]

Cat(rs) == [t |-> "seq", rs |-> rs]

Alt(rs) == [t |-> "alt", rs |-> rs]

Grp(n, r) == [t |-> "grp", n |-> n, r |-> r]

NoGroups == [n \in 1..3 |-> <<0, 0>>]

\* The index of the first lexeme from i on that is not of class c.
RunStop(c, s, i) == Least({j \in i..Len(s) : ~Is(c, s[j])} \cup {Len(s) + 1})

\* The most lexemes of a run, whose offsets are off, that hold at most budget
\* characters.
Fitting(off, budget) == Greatest({n \in 0..(Len(off) - 1) : off[n + 1] <= budget})

\* Number of consecutive lexemes of class c from index i whose characters fit
\* in budget (budget < 0: no limit).
RunLen(c, s, i, budget) ==
    IF budget < 0 THEN RunStop(c, s, i) - i
    ELSE Fitting(Offsets(SubSeq(s, i, RunStop(c, s, i) - 1)), budget)

\* The offset of keyword kw in lexeme t (the leftmost one), and the offset of
\* its end.
KwOff(t, kw) == Least(KwOffsets(t, kw))

KwLength(t, kw) == (CHOOSE f \in Feat(t.k) : f[1] = kw)[3]

KwStop(t, kw) == KwOff(t, kw) + KwLength(t, kw)

\* A greedy repetition that can take n lexemes from index i and needs min of
\* them: the longest way first.
Ways(i, n, min, g) ==
    IF n < min THEN <<>>
    ELSE [k \in 1..(n - min + 1) |-> [e |-> i + n - (k - 1), g |-> g]]

\* The ways r of a group's pattern, with the group's span recorded.
Captured(r, n, i) ==
    [k \in 1..Len(r) |-> [e |-> r[k].e, g |-> [r[k].g EXCEPT ![n] = <<i, r[k].e>>]]]

RECURSIVE M(_, _, _, _)
RECURSIVE SeqM(_, _, _, _)
M(re, s, i, g) ==
    CASE re.t = "c" ->
           IF i <= Len(s) /\ Is(re.c, s[i]) THEN <<[e |-> i + 1, g |-> g]>> ELSE <<>>
      [] re.t = "rep" -> Ways(i, RunLen(re.c, s, i, re.max), re.min, g)
      [] re.t = "kw" ->
           IF i <= Len(s) /\ HasKw(s[i], re.kw)
              /\ (re.toEnd => KwStop(s[i], re.kw) = s[i].hi)
              /\ (re.at0 => KwOff(s[i], re.kw) = s[i].lo)
           THEN <<[e |-> i + 1, g |-> g]>> ELSE <<>>
      [] re.t = "kwline" ->
           IF i <= Len(s) /\ HasKw(s[i], re.kw)
              /\ (re.at0 => KwOff(s[i], re.kw) = s[i].lo)
              /\ s[i].hi - KwStop(s[i], re.kw) <= re.max
           THEN Ways(i + 1,
                     RunLen("notnl", s, i + 1, re.max - (s[i].hi - KwStop(s[i], re.kw))),
                     0, g)
           ELSE <<>>
      [] re.t = "opt" -> M(re.r, s, i, g) \o <<[e |-> i, g |-> g]>>
      [] re.t = "alt" -> Concat([k \in 1..Len(re.rs) |-> M(re.rs[k], s, i, g)])
      [] re.t = "seq" -> SeqM(re.rs, 1, s, <<[e |-> i, g |-> g]>>)
      [] re.t = "grp" -> Captured(M(re.r, s, i, g), re.n, i)

\* part holds, in order, the ways of matching rs[1..j-1]; each is continued
\* with rs[j], rs[j+1], ...
SeqM(rs, j, s, part) ==
    IF Len(part) = 0 \/ j > Len(rs) THEN part
    ELSE SeqM(rs, j + 1, s,
              Concat([k \in 1..Len(part) |-> M(rs[j], s, part[k].e, part[k].g)]))

\* The first way r[1] of the ways r of matching at lexeme index i; e = 0 when
\* there is none.
FirstWay(i, r) ==
    IF Len(r) = 0 THEN [b |-> i, e |-> 0, g |-> NoGroups]
    ELSE [b |-> i, e |-> r[1].e, g |-> r[1].g]

\* The matches of at (the first way of matching at each lexeme index) that
\* finditer yields from index `from` on: the leftmost one, then those after
\* its end.
RECURSIVE Chain(_, _)
Chain(at, from) ==
    IF \A i \in from..Len(at) : at[i].e = 0 THEN <<>>
    ELSE <<at[Least({i \in from..Len(at) : at[i].e # 0})]>>
         \o Chain(at, at[Least({i \in from..Len(at) : at[i].e # 0})].e)

\* re.finditer: the non-overlapping matches, left to right (no pattern here
\* matches the empty string).
FindAll(re, s) ==
    IF Len(s) = 0 THEN <<>>
    ELSE Chain([i \in 1..Len(s) |-> FirstWay(i, M(re, s, i, NoGroups))] \o <<>>, 1)

\* The lexemes of capture group n of match m.
Group(s, m, n) == SubSeq(s, m.g[n][1], m.g[n][2] - 1)

\* In a replacement template, the reference \n to capture group n.
G(n) == [k |-> "group", v |-> n, lo |-> 0, hi |-> 0]

\* match.expand(repl): the template with its group references filled in.
Expand(repl, s, m) ==
    Concat([j \in 1..Len(repl) |->
              IF repl[j].k = "group" THEN Group(s, m, repl[j].v) ELSE <<repl[j]>>])

\* s with each of its matches ms replaced by the expanded template.
Replaced(s, repl, ms) ==
    Concat([k \in 1..Len(ms) |->
              SubSeq(s, IF k = 1 THEN 1 ELSE ms[k - 1].e, ms[k].b - 1)
              \o Expand(repl, s, ms[k])])
    \o SubSeq(s, IF Len(ms) = 0 THEN 1 ELSE ms[Len(ms)].e, Len(s))

\* re.sub(re, repl, s): every match replaced by the expanded template.
ReSub(re, repl, s) == IF Len(s) = 0 THEN s ELSE Replaced(s, repl, FindAll(re, s))

(***************************************************************************)
(* DATE_PATTERN, to_iso, parse_date_block, classify_event                  *)
(***************************************************************************)

\* \d{2}/\d{2}/\d{4}\s*a\s*\d{2}/\d{2}/\d{4}
\* |Entre\s+\d{2}/\d{2}/\d{4}(?:\s*(?:e|a)\s*\d{2}/\d{2}/\d{4})?
\* |\d{2}/\d{2}/\d{4}          (re.IGNORECASE)
DATE_PATTERN ==
    Alt(<< Cat(<<C("date"), Star("s"), C("aA"), Star("s"), C("date")>>),
           Cat(<<C("entre"), Plus("s"), C("date"),
                 Opt(Cat(<<Star("s"), C("eaEA"), Star("s"), C("date")>>))>>),
           C("date") >>)

DaysInMonth(m, y) ==
    CASE m \in {1, 3, 5, 7, 8, 10, 12} -> 31
      [] m \in {4, 6, 9, 11} -> 30
      [] m = 2 -> IF (y % 4 = 0 /\ y % 100 # 0) \/ y % 400 = 0 THEN 29 ELSE 28
      [] OTHER -> 0

\* ValidDMY without the calendar check of datetime.strptime.
ValidDMY_any(v) == TRUE

\* A real calendar day, given as the digits DDMMYYYY.
ValidDMY(v) ==
    LET d == v \div 1000000
        m == (v \div 10000) % 100
        y == v % 10000
    IN  y >= 1 /\ d >= 1 /\ d <= DaysInMonth(m, y)

\* IsoOf without the reordering of day, month and year.
IsoOf_dmy(v) == v

\* The ISO form YYYYMMDD of the date DDMMYYYY.
IsoOf(v) == (v % 10000) * 10000 + ((v \div 10000) % 100) * 100 + v \div 1000000

to_iso(date_str) ==
    LET s == Strip(date_str)
    IN  IF Len(s) = 1 /\ IsDate(s[1]) /\ ValidDMY(s[1].v) THEN IsoOf(s[1].v) ELSE NULL

\* Indices i of b where the literal " a " starts, non-overlapping, in order
\* (str.split(" a ")).
RECURSIVE SplitPoints(_, _)
SplitPoints(b, i) ==
    IF i + 2 > Len(b) THEN <<>>
    ELSE IF b[i].k = "sp" /\ b[i + 1].k = "a" /\ b[i + 2].k = "sp"
         THEN <<i>> \o SplitPoints(b, i + 3)
         ELSE SplitPoints(b, i + 1)

\* parse_date_block with the split on " a " tried before the Entre test.
parse_date_block_split_first(date_block) ==
    LET b == Strip(date_block)
        dates == SelectSeq(b, IsDate)
        sp == SplitPoints(b, 1)
    IN  IF Len(sp) = 1
          THEN <<to_iso(SubSeq(b, 1, sp[1] - 1)), to_iso(SubSeq(b, sp[1] + 3, Len(b)))>>
        ELSE IF b # <<>> /\ Is("entre", b[1]) /\ Len(dates) = 2
          THEN <<to_iso(<<dates[1]>>), to_iso(<<dates[2]>>)>>
        ELSE IF b # <<>> /\ Is("entre", b[1]) /\ Len(dates) = 1
          THEN <<to_iso(<<dates[1]>>), NULL>>
        ELSE <<to_iso(b), NULL>>

parse_date_block(date_block) ==
    LET b == Strip(date_block)
        dates == SelectSeq(b, IsDate)
        sp == SplitPoints(b, 1)
        single == <<to_iso(b), NULL>>
        range == IF Len(sp) = 1
                 THEN <<to_iso(SubSeq(b, 1, sp[1] - 1)), to_iso(SubSeq(b, sp[1] + 3, Len(b)))>>
                 ELSE single
    IN  IF b # <<>> /\ Is("entre", b[1]) /\ Len(dates) = 2
          THEN <<to_iso(<<dates[1]>>), to_iso(<<dates[2]>>)>>
        ELSE IF b # <<>> /\ Is("entre", b[1]) /\ Len(dates) = 1
          THEN <<to_iso(<<dates[1]>>), NULL>>
        ELSE range

\* "kw in event_text.lower()": Feat lists the keywords of the lower-cased words.
InLower(kw, event_text) == Contains(event_text, kw)

\* classify_event with the registration test before the exemption test.
classify_event_registration_first(event_text) ==
    IF InLower("inscri", event_text) \/ InLower("inscric", event_text) THEN "inscricao"
    ELSE IF InLower("isen", event_text) \/ InLower("isenCA", event_text)
            \/ InLower("isenc", event_text) THEN "isencao"
    ELSE IF \E w \in {"prova", "aplicac", "aplicaC", "realizac", "realizaC"} :
              InLower(w, event_text) THEN "prova"
    ELSE IF InLower("resultado", event_text) THEN "resultado"
    ELSE IF InLower("recurso", event_text) THEN "recurso"
    ELSE IF InLower("publica", event_text) THEN "publicacao"
    ELSE "outro"

classify_event(event_text) ==
    IF InLower("isen", event_text) \/ InLower("isenCA", event_text)
       \/ InLower("isenc", event_text) THEN "isencao"
    ELSE IF InLower("inscri", event_text) \/ InLower("inscric", event_text) THEN "inscricao"
    ELSE IF \E w \in {"prova", "aplicac", "aplicaC", "realizac", "realizaC"} :
              InLower(w, event_text) THEN "prova"
    ELSE IF InLower("resultado", event_text) THEN "resultado"
    ELSE IF InLower("recurso", event_text) THEN "recurso"
    ELSE IF InLower("publica", event_text) THEN "publicacao"
    ELSE "outro"

(***************************************************************************)
(* normalize_text                                                          *)
(***************************************************************************)

\* STEP 1: (DATE)\s+a\s+[^\n]*\n\s*([^\n]+)\n\s*(DATE)  ->  \2 \1 a \3
ReTable ==
    Cat(<<Grp(1, C("date")), Plus("s"), C("a"), Plus("s"), Star("notnl"), C("nl"),
          Star("s"), Grp(2, Plus("notnl")), C("nl"), Star("s"), Grp(3, C("date"))>>)

\* (DATE(?:\s+a\s+DATE)?) with IGNORECASE, the second group of the STEP 1.5 patterns.
ReDateOrRange ==
    Cat(<<C("date"), Opt(Cat(<<Plus("s"), C("aA"), Plus("s"), C("date")>>))>>)

\* STEP 1.5: (KEYWORD[^\n]{0,100})\n\s*(DATE(?:\s+a\s+DATE)?)  ->  \1 \2
\* for the keywords inscri[çc][ãõ], isen[çc][ãa]o and
\* (?:aplica[çc][ãa]o\s+da\s+)?provas?
ReLabelLine(first) ==
    Cat(<<Grp(1, first), C("nl"), Star("s"), Grp(2, ReDateOrRange)>>)

ReInscLine == ReLabelLine(KwLine("reInsc15", 100))

ReIsenLine == ReLabelLine(KwLine("reIsen", 100))

ReProvaLine ==
    ReLabelLine(Alt(<<Cat(<<KwEnd("reAplic"), Plus("s"), C("da"), Plus("s"),
                            [KwLine("reProvas", 100) EXCEPT !.at0 = TRUE]>>),
                      KwLine("reProvas", 100)>>))

\* STEP 2: https?://\S+|www\.\S+
ReUrl == Cat(<<C("url"), Star("S")>>)

\* STEP 3: (DATE)\s*a\s*\n\s*(DATE)  ->  \1 a \2
ReBrokenRange ==
    Cat(<<Grp(1, C("date")), Star("s"), C("a"), Star("s"), C("nl"), Star("s"),
          Grp(2, C("date"))>>)

\* STEP 4: Entre\s*\n\s*(DATE)  ->  Entre \1     (IGNORECASE)
ReBrokenEntre == Cat(<<C("entre"), Star("s"), C("nl"), Star("s"), Grp(1, C("date"))>>)

\* STEP 5: (Entre\s+DATE)\s+a\s*\n?\s*([^\d\n]+)?\s*(DATE)  ->  \1 a \3   (IGNORECASE)
ReEntreStray ==
    Cat(<<Grp(1, Cat(<<C("entre"), Plus("s"), C("date")>>)), Plus("s"), C("aA"),
          Star("s"), Opt(C("nl")), Star("s"), Opt(Grp(2, Plus("notdnl"))), Star("s"),
          Grp(3, C("date"))>>)

\* The substitutions of STEP 1 to STEP 6, in the order the code applies them.
Substitutions ==
    << [re |-> ReTable,
        repl |-> <<G(2), T("sp"), G(1), T("sp"), T("a"), T("sp"), G(3)>>],
       [re |-> ReInscLine, repl |-> <<G(1), T("sp"), G(2)>>],
       [re |-> ReIsenLine, repl |-> <<G(1), T("sp"), G(2)>>],
       [re |-> ReProvaLine, repl |-> <<G(1), T("sp"), G(2)>>],
       [re |-> ReUrl, repl |-> <<>>],
       [re |-> ReBrokenRange, repl |-> <<G(1), T("sp"), T("a"), T("sp"), G(2)>>],
       [re |-> ReBrokenEntre, repl |-> <<T("Entre"), T("sp"), G(1)>>],
       [re |-> ReEntreStray, repl |-> <<G(1), T("sp"), T("a"), T("sp"), G(3)>>],
       [re |-> Plus("blank"), repl |-> <<T("sp")>>],
       [re |-> AtLeast(3, "nl"), repl |-> <<T("nl"), T("nl")>>] >>

\* text after the substitutions j, j+1, ...
RECURSIVE Substitute(_, _)
Substitute(text, j) ==
    IF Len(text) = 0 \/ j > Len(Substitutions) THEN text
    ELSE Substitute(ReSub(Substitutions[j].re, Substitutions[j].repl, text), j + 1)

\* normalize_text without the final strip().
normalize_text_unstripped(text) == Substitute(text, 1)

normalize_text(text) == Strip(Substitute(text, 1))

(***************************************************************************)
(* extract_all_dates: its local state is the record x; each operator below *)
(* is one step of the function.                                            *)
(***************************************************************************)

\* Strategy 1 looks back 150 characters; Strategy 2 looks forward 200 and
\* builds its label from 50 characters before to 100 after the keyword; the
\* de-dup key of Strategy 1 holds the first 50 characters of the label.
LookBack == 150

LookForward == 200

LabelBack == 50

LabelForward == 100

KeyPrefix == 50

\* re.sub(r'Nota Informativa.*', '', context)
ReNota == Cat(<<C("nota"), Star("notnl")>>)

DropNota(context) == ReSub(ReNota, <<>>, context)

\* context.split(".")[-1]
LastSentence(s) ==
    LET dots == {i \in 1..Len(s) : s[i].k = "dot"}
    IN  IF dots = {} THEN s ELSE SubSeq(s, Greatest(dots) + 1, Len(s))

\* re.sub(r'[:\-–]+$', '', event_text)
DropTrailingPunct(s) ==
    LET keep == {i \in 1..Len(s) : ~Is("punct", s[i])}
    IN  IF keep = {} THEN <<>> ELSE SubSeq(s, 1, Greatest(keep))

\* The keyword list of Strategy 2: pattern, tipo, and the keywords a match
\* can start with.
keywords ==
    << [re |-> Kw("reInscB"), tipo |-> "inscricao", first |-> <<"reInscB">>],
       [re |-> Kw("reIsen"), tipo |-> "isencao", first |-> <<"reIsen">>],
       [re |-> Cat(<<Alt(<<Cat(<<KwEnd("reAplic"), Plus("s"), C("da"), Plus("s"),
                                 Kw0("reProvas")>>),
                           Kw("reProvas")>>),
                     Opt(Cat(<<Plus("s"), Kw0("reObjetivas")>>))>>),
        tipo |-> "prova", first |-> <<"reAplic", "reProvas">>],
       [re |-> Cat(<<KwEnd("reRealiz"), Plus("s"), C("da"), Plus("s"), Kw0("reProvas")>>),
        tipo |-> "prova", first |-> <<"reRealiz">>] >>

\* kw_match.start() of the match of keyword entry kw that starts in lexeme b
\* of text: the keyword's place in that lexeme.
KwStart(kw, text, b) ==
    OffsetOf(text, b) - text[b].lo
    + KwOff(text[b], kw.first[Least({j \in 1..Len(kw.first) : HasKw(text[b], kw.first[j])})])

\* kw_match.start() of every match ms of keyword entry kw in text.
StartsOf(kw, text, ms) == [j \in 1..Len(ms) |-> KwStart(kw, text, ms[j].b)] \o <<>>

KwStarts(kw, text) == StartsOf(kw, text, FindAll(kw.re, text))

\* The text a tipo string is, as the third part of a Strategy 2 de-dup key.
TipoText(tipo) == <<T(tipo)>>

\* The de-dup key f"{data_inicio}|{data_fim}|{third}".
DateKey(data_inicio, data_fim, third) == <<data_inicio, data_fim, third>>

Event(evento, data_inicio, data_fim, tipo) ==
    [evento |-> evento, data_inicio |-> data_inicio, data_fim |-> data_fim, tipo |-> tipo]

XIdle ==
    [pc |-> "idle", arg |-> <<>>, text |-> <<>>, results |-> <<>>, seen_dates |-> {},
     matches |-> <<>>, mi |-> 0, kwi |-> 0, occs |-> <<>>, oi |-> 0, hits |-> <<>>, hj |-> 0]

\* Lines 192-195: empty results and seen_dates, the date matches ms of text.
ExtractStart(arg, text, ms) ==
    [XIdle EXCEPT !.pc = IF Len(ms) = 0 THEN "Bkw" ELSE "A", !.arg = arg, !.text = text,
                  !.matches = ms, !.mi = 1, !.kwi = 1]

ExtractOn(arg, text) == ExtractStart(arg, text, FindAll(DATE_PATTERN, text))

\* Lines 190-195.
ExtractInit(arg) == ExtractOn(arg, normalize_text(arg))

\* Lines 200-211: Strategy 1's event description, from the context before
\* the date match.
CleanLabel(context) ==
    Strip(DropTrailingPunct(Strip(LastSentence(Strip(DropNota(context))))))

ContextBefore(text, start_index) ==
    Slice(text, Max(0, start_index - LookBack), start_index)

LabelBefore(text, b) == CleanLabel(ContextBefore(text, OffsetOf(text, b)))

\* AddsA without the test that the start was parsed.
AddsA_unparsed(x, d, event_text) ==
    DateKey(d[1], d[2], Slice(event_text, 0, KeyPrefix)) \notin x.seen_dates

\* Whether Strategy 1 adds an event for a parsed block.
AddsA(x, d, event_text) ==
    d[1] # NULL /\ DateKey(d[1], d[2], Slice(event_text, 0, KeyPrefix)) \notin x.seen_dates

\* EmitA with the event put at the front of the list.
EmitA_in_front(x, d, event_text) ==
    IF AddsA(x, d, event_text)
    THEN [x EXCEPT !.seen_dates = @ \cup {DateKey(d[1], d[2], Slice(event_text, 0, KeyPrefix))},
                   !.results = <<Event(event_text, d[1], d[2],
                                       classify_event(event_text))>> \o @]
    ELSE x

\* Lines 213-225: the parsed block d with description event_text.
EmitA(x, d, event_text) ==
    IF AddsA(x, d, event_text)
    THEN [x EXCEPT !.seen_dates = @ \cup {DateKey(d[1], d[2], Slice(event_text, 0, KeyPrefix))},
                   !.results = Append(@, Event(event_text, d[1], d[2],
                                               classify_event(event_text)))]
    ELSE x

\* The next date match, or Strategy 2.
AfterMatch(x) ==
    [x EXCEPT !.mi = @ + 1, !.pc = IF x.mi + 1 > Len(x.matches) THEN "Bkw" ELSE "A"]

\* Lines 195-225: one iteration of Strategy 1.
StepA(x) ==
    AfterMatch(EmitA(x,
                     parse_date_block(SubSeq(x.text, x.matches[x.mi].b,
                                             x.matches[x.mi].e - 1)),
                     LabelBefore(x.text, x.matches[x.mi].b)))

\* The occurrences occs of keyword kwi are to be visited.
WithOccurrences(x, occs) ==
    IF Len(occs) = 0 THEN [x EXCEPT !.kwi = @ + 1, !.occs = <<>>, !.oi = 0]
    ELSE [x EXCEPT !.occs = occs, !.oi = 1, !.pc = "Bocc"]

\* Lines 236-238: the occurrences of keyword kwi (the loop ends after the last).
StepBkw(x) ==
    IF x.kwi > Len(keywords) THEN [x EXCEPT !.pc = "ret"]
    ELSE WithOccurrences(x, KwStarts(keywords[x.kwi], x.text))

\* The next occurrence of the keyword, or the next keyword.
AfterOcc(x) ==
    IF x.oi + 1 <= Len(x.occs)
    THEN [x EXCEPT !.oi = @ + 1, !.hits = <<>>, !.hj = 0, !.pc = "Bocc"]
    ELSE [x EXCEPT !.kwi = @ + 1, !.occs = <<>>, !.oi = 0, !.hits = <<>>, !.hj = 0,
                   !.pc = "Bkw"]

\* The date blocks hits of occurrence oi are to be visited.
WithHits(x, hits) ==
    IF Len(hits) = 0 THEN AfterOcc(x) ELSE [x EXCEPT !.hits = hits, !.hj = 1, !.pc = "Bhit"]

\* The text of each match.
BlocksOf(s, ms) == [j \in 1..Len(ms) |-> SubSeq(s, ms[j].b, ms[j].e - 1)] \o <<>>

\* DATE_PATTERN.finditer(forward_context), as the matched blocks.
DateBlocks(forward_context) ==
    BlocksOf(forward_context, FindAll(DATE_PATTERN, forward_context))

\* Lines 241-243.
ForwardContext(text, kw_start) ==
    Slice(text, kw_start, Min(CharLen(text), kw_start + LookForward))

\* Lines 239-247: the date blocks in the forward context of occurrence oi.
StepBocc(x) == WithHits(x, DateBlocks(ForwardContext(x.text, x.occs[x.oi])))

\* Strategy 2's event description for a keyword at character kw_start.
LabelAround(text, kw_start) ==
    Strip(DropTrailingPunct(Strip(
        Slice(text, Max(0, kw_start - LabelBack), kw_start + LabelForward))))

\* AddsB without the look-up in seen_dates.
AddsB_any(x, d, tipo) == d[1] # NULL

\* Whether Strategy 2 adds an event for a parsed block.
AddsB(x, d, tipo) ==
    d[1] # NULL /\ DateKey(d[1], d[2], TipoText(tipo)) \notin x.seen_dates

\* After a date hit that added nothing: the next hit of the occurrence, if any.
ContinueHits(x) ==
    IF x.hj + 1 <= Len(x.hits) THEN [x EXCEPT !.hj = @ + 1] ELSE AfterOcc(x)

\* After a date hit that added an event (line 266).
BreakHits(x) == AfterOcc(x)

\* Lines 249-266: the parsed block d of a hit of a keyword of type tipo.
EmitB(x, d, tipo) ==
    IF AddsB(x, d, tipo)
    THEN BreakHits([x EXCEPT !.seen_dates = @ \cup {DateKey(d[1], d[2], TipoText(tipo))},
                             !.results = Append(@, Event(LabelAround(x.text, x.occs[x.oi]),
                                                         d[1], d[2], tipo))])
    ELSE ContinueHits(x)

\* Lines 247-266: one date hit of occurrence oi of keyword kwi.
StepBhit(x) == EmitB(x, parse_date_block(x.hits[x.hj]), keywords[x.kwi].tipo)

ExtractStep(x) ==
    CASE x.pc = "A" -> StepA(x)
      [] x.pc = "Bkw" -> StepBkw(x)
      [] x.pc = "Bocc" -> StepBocc(x)
      [] x.pc = "Bhit" -> StepBhit(x)
      [] OTHER -> x

\* The list after Strategy 1 alone (lines 190-225).
RECURSIVE RunStrategyA(_)
RunStrategyA(x) == IF x.pc # "A" THEN x.results ELSE RunStrategyA(StepA(x))

StrategyAResults(text) == RunStrategyA(ExtractInit(text))

\* The whole function: the list it returns (line 268).
RECURSIVE RunExtract(_)
RunExtract(x) == IF x.pc = "ret" THEN x.results ELSE RunExtract(ExtractStep(x))

extract_all_dates(text) == RunExtract(ExtractInit(text))

(***************************************************************************)
(* CronogramaParser.extract_from_text                                      *)
(***************************************************************************)

\* [\s\S]{100,12000}? : the bounds of the section body, in characters.
SectionMin == 100

SectionMax == 12000

\* "len(events) < 3": the section is kept from this many events on.
MinSectionEvents == 3

\* The lookahead \n\s*(?:ANEXO|Anexo|CAPÍTULO|Capítulo|\d+\.\s+[A-Z])   (IGNORECASE)
ReSectionEnd ==
    Cat(<<C("nl"), Star("s"),
          Alt(<<Kw0("reAnexo"), Cat(<<Plus("num"), C("dot"), Plus("s"), C("letter")>>)>>)>>)

\* (?=\n\s*(?:...)|$) at lexeme index e: $ is the end of the text, or the
\* place before a last line break.
EndsSection(text, e) ==
    \/ e = Len(text) + 1
    \/ e = Len(text) /\ text[e].k = "nl"
    \/ M(ReSectionEnd, text, e, NoGroups) # <<>>

\* BodyEnds without the lower bound of 100 characters.
BodyEnds_no_minimum(text, b, off) ==
    {f \in b..(Len(text) + 1) : off[f] - off[b] <= SectionMax /\ EndsSection(text, f)}

\* The places where a section body that starts at lexeme b can end: the body
\* holds SectionMin..SectionMax characters up to a place that ends it.
BodyEnds(text, b, off) ==
    {f \in b..(Len(text) + 1) : /\ off[f] - off[b] >= SectionMin
                                /\ off[f] - off[b] <= SectionMax
                                /\ EndsSection(text, f)}

\* The first line break after lexeme h ("[^\n]*\n" ends the heading line);
\* Len(text) + 1 when there is none.
HeadingEnd(text, h) == Least({n \in (h + 1)..Len(text) : text[n].k = "nl"} \cup {Len(text) + 1})

\* The ends of the section bodies the regex can capture for the heading in
\* lexeme h.
SectionEnds(text, h) == BodyEnds(text, HeadingEnd(text, h) + 1, Offsets(text))

\* The body of the section whose heading is the first of heads: the shortest
\* one (the body is matched lazily).
SectionOf(text, heads) ==
    IF heads = {} THEN <<>>
    ELSE SubSeq(text, HeadingEnd(text, Least(heads)) + 1,
                Least(SectionEnds(text, Least(heads))) - 1)

\* re.search of the section regex (lines 311-318): group 2 of the leftmost
\* match; <<>> stands for None.
cronograma_match(text) ==
    SectionOf(text, {h \in 1..Len(text) : /\ HasKw(text[h], "reCrono")
                                          /\ SectionEnds(text, h) # {}})

\* Lines 299-304.
EmptyResult ==
    [inscricao_inicio |-> NULL, inscricao_fim |-> NULL, isencao_inicio |-> NULL,
     data_prova |-> NULL]

\* Lines 345-350: the event text holds the keyword of the event's own tipo.
IsHighConfidence(event) ==
    \/ event.tipo = "inscricao" /\ InLower("inscri", event.evento)
    \/ event.tipo = "isencao" /\ InLower("isen", event.evento)
    \/ event.tipo = "prova" /\ (\/ InLower("prova", event.evento)
                                \/ InLower("aplica", event.evento)
                                \/ InLower("realiza", event.evento))

IsLowConfidence(event) == ~IsHighConfidence(event)

\* TakesInscricao without the test that the field is still unset.
TakesInscricao_any(res, event) == event.tipo = "inscricao"

\* Lines 358-360 and 380-382.
TakesInscricao(res, event) == event.tipo = "inscricao" /\ res.inscricao_inicio = NULL

\* Lines 363-364 and 385-386.
TakesIsencao(res, event) == event.tipo = "isencao" /\ res.isencao_inicio = NULL

\* Lines 369-370 and 391-392: prova_range is <<>> (None) or <<event>>.
TakesProvaRange(range, event) == event.data_fim # NULL /\ range = <<>>

\* Lines 372-373 and 394-395.
TakesProvaSingle(res, event) == res.data_prova = NULL /\ event.data_fim = NULL

\* ResolveEvent that fills the start and the end of the registration each
\* from the first event that has one.
ResolveEvent_end_apart(st, event) ==
    IF event.tipo = "inscricao"
      THEN [st EXCEPT !.result.inscricao_inicio = IF @ = NULL THEN event.data_inicio ELSE @,
                      !.result.inscricao_fim = IF @ = NULL THEN event.data_fim ELSE @]
    ELSE IF TakesIsencao(st.result, event)
      THEN [st EXCEPT !.result.isencao_inicio = event.data_inicio]
    ELSE IF event.tipo = "prova"
      THEN IF TakesProvaRange(st.prova_range, event)
             THEN [st EXCEPT !.prova_range = <<event>>]
           ELSE IF TakesProvaSingle(st.result, event)
             THEN [st EXCEPT !.result.data_prova = event.data_inicio]
           ELSE st
    ELSE st

\* One iteration of either loop (lines 355-374, 377-396) on the pair
\* [result, prova_range].
ResolveEvent(st, event) ==
    IF TakesInscricao(st.result, event)
      THEN [st EXCEPT !.result.inscricao_inicio = event.data_inicio,
                      !.result.inscricao_fim = event.data_fim]
    ELSE IF TakesIsencao(st.result, event)
      THEN [st EXCEPT !.result.isencao_inicio = event.data_inicio]
    ELSE IF event.tipo = "prova"
      THEN IF TakesProvaRange(st.prova_range, event)
             THEN [st EXCEPT !.prova_range = <<event>>]
           ELSE IF TakesProvaSingle(st.result, event)
             THEN [st EXCEPT !.result.data_prova = event.data_inicio]
           ELSE st
    ELSE st

\* UseProvaRange that keeps a single date already stored.
UseProvaRange_unless_set(res, range) ==
    IF range # <<>> /\ res.data_prova = NULL
    THEN [res EXCEPT !.data_prova = range[1].data_inicio] ELSE res

\* Lines 399-400.
UseProvaRange(res, range) ==
    IF range # <<>> THEN [res EXCEPT !.data_prova = range[1].data_inicio] ELSE res

\* NeedsFallback without the "fewer than 3" test.
NeedsFallback_when_empty(evs) == evs = <<>>

\* Line 328: "not events or len(events) < 3".
NeedsFallback(evs) == evs = <<>> \/ Len(evs) < MinSectionEvents

VARIABLES
    input,               \* the argument text
    pc,                  \* where extract_from_text is
    cronograma_section,  \* the located section, <<>> for None
    x,                   \* the locals of the running extract_all_dates call
    events, high_confidence, low_confidence, result, prova_range,
    ri,                  \* index of the next event in the running resolution loop
    waiting,             \* the locals of the calls of other threads, not running now
    disk,                \* the files: summaries, backups and reviewed examples
    stdout,              \* the lines printed so far
    now                  \* the UTC clock

vars ==
    <<input, pc, cronograma_section, x, events, high_confidence, low_confidence,
      result, prova_range, ri, waiting, disk, stdout, now>>

\* What a call of the parser leaves alone.
outside == <<disk, stdout, now>>

\* No file at all.
NoDisk == [summaries |-> <<>>, backups |-> <<>>, reviewed_examples |-> <<>>]

(***************************************************************************)
(* The input texts                                                         *)
(***************************************************************************)

\* Most lines of a composed document, and of the body of a composed section.
MaxLines == 3

MaxSectionLines == 2

D(d, m, y) == DT(d * 1000000 + m * 10000 + y)

Range(d1, d2) == <<d1, T("sp"), T("a"), T("sp"), d2>>

Labelled(words, block) == words \o <<T("colon"), T("sp")>> \o block

\* The schedule lines documents are composed of:
\*   1  Período de inscrição: 10/02/2026 a 15/02/2026
\*   2  Isenção: 12/02/2026
\*   3  Prova: 20/02/2026
\*   4  Inscrições: 11/02/2026
\*   5  Prova: 21/02/2026 a 22/02/2026
\*   6  Inscrições: 25/02/2026 a 31/02/2026      (no 31st of February)
\*   7  prova 20/02/2026
\*   8  Resultado: 28/02/2026.
Lines ==
    << Labelled(<<T("PerIodo_de"), T("sp"), T("inscriCAo")>>,
                Range(D(10, 2, 2026), D(15, 2, 2026))),
       Labelled(<<T("IsenCAo")>>, <<D(12, 2, 2026)>>),
       Labelled(<<T("Prova")>>, <<D(20, 2, 2026)>>),
       Labelled(<<T("InscriCOes")>>, <<D(11, 2, 2026)>>),
       Labelled(<<T("Prova")>>, Range(D(21, 2, 2026), D(22, 2, 2026))),
       Labelled(<<T("InscriCOes")>>, Range(D(25, 2, 2026), D(31, 2, 2026))),
       <<T("prova"), T("sp"), D(20, 2, 2026)>>,
       Labelled(<<T("Resultado")>>, <<D(28, 2, 2026)>>) \o <<T("dot")>> >>

LineKind(n) == Lines[n]

\* The lines a composed section is made of.
SectionLineKinds == {1, 2, 3, 5}

RECURSIVE JoinLines(_)
JoinLines(ks) ==
    IF ks = <<>> THEN <<>>
    ELSE LineKind(Head(ks)) \o (IF Len(ks) > 1 THEN <<T("nl")>> ELSE <<>>)
         \o JoinLines(Tail(ks))

SeqsUpTo(S, n) == UNION {[1..k -> S] : k \in 0..n}

\* "CRONOGRAMA\n" and an introductory line, one word of sixty letters.
Heading == <<T("CRONOGRAMA"), T("nl"), T("Lorem")>>

\* Documents with a heading: an optional line before it, the section's lines,
\* and optionally an annex with one more line.
SectionDocs ==
    {pre \o Heading \o (IF body = <<>> THEN <<>> ELSE <<T("nl")>> \o JoinLines(body)) \o post :
        pre \in {<<>>, LineKind(4) \o <<T("nl")>>},
        body \in SeqsUpTo(SectionLineKinds, MaxSectionLines),
        post \in {<<>>, <<T("nl"), T("ANEXO"), T("nl")>> \o LineKind(3)}}

Texts == {JoinLines(ks) : ks \in SeqsUpTo(DOMAIN Lines, MaxLines)} \cup SectionDocs

(***************************************************************************)
(* The steps of extract_from_text                                          *)
(***************************************************************************)

Init ==
    /\ input \in Texts
    /\ pc = "start"
    /\ result = EmptyResult
    /\ cronograma_section = <<>>
    /\ x = XIdle
    /\ events = <<>>
    /\ high_confidence = <<>>
    /\ low_confidence = <<>>
    /\ prova_range = <<>>
    /\ ri = 0
    /\ waiting = <<>>
    /\ disk = NoDisk /\ stdout = <<>> /\ now = 0

\* CheckEmpty without the early return.
CheckEmpty_never ==
    /\ pc = "start"
    /\ pc' = "locate"
    /\ UNCHANGED <<outside, waiting, input, cronograma_section, x, events, high_confidence,
                   low_confidence, result, prova_range, ri>>

\* Lines 306-307: "if not text: return result".
CheckEmpty ==
    /\ pc = "start"
    /\ pc' = IF input = <<>> THEN "done" ELSE "locate"
    /\ UNCHANGED <<outside, waiting, input, cronograma_section, x, events, high_confidence,
                   low_confidence, result, prova_range, ri>>

\* Lines 310-319.
LocateSection ==
    /\ pc = "locate"
    /\ cronograma_section' = cronograma_match(input)
    /\ pc' = "section"
    /\ UNCHANGED <<outside, waiting, input, x, events, high_confidence, low_confidence, result,
                   prova_range, ri>>

\* Lines 322-324: the call of extract_all_dates on the section, if there is one.
CallOnSection ==
    /\ pc = "section"
    /\ IF cronograma_section # <<>>
       THEN x' = ExtractInit(cronograma_section) /\ pc' = "in_section"
       ELSE x' = x /\ pc' = "check"
    /\ UNCHANGED <<outside, waiting, input, cronograma_section, events, high_confidence,
                   low_confidence, result, prova_range, ri>>

Extracting == pc \in {"in_section", "in_full"}

StrategyA ==
    /\ Extracting /\ x.pc = "A"
    /\ x' = StepA(x)
    /\ UNCHANGED <<outside, waiting, input, pc, cronograma_section, events, high_confidence,
                   low_confidence, result, prova_range, ri>>

StrategyBKeyword ==
    /\ Extracting /\ x.pc = "Bkw"
    /\ x' = StepBkw(x)
    /\ UNCHANGED <<outside, waiting, input, pc, cronograma_section, events, high_confidence,
                   low_confidence, result, prova_range, ri>>

StrategyBOccurrence ==
    /\ Extracting /\ x.pc = "Bocc"
    /\ x' = StepBocc(x)
    /\ UNCHANGED <<outside, waiting, input, pc, cronograma_section, events, high_confidence,
                   low_confidence, result, prova_range, ri>>

StrategyBHit ==
    /\ Extracting /\ x.pc = "Bhit"
    /\ x' = StepBhit(x)
    /\ UNCHANGED <<outside, waiting, input, pc, cronograma_section, events, high_confidence,
                   low_confidence, result, prova_range, ri>>

\* Line 324: the section's events.
ReturnFromSection ==
    /\ pc = "in_section" /\ x.pc = "ret"
    /\ events' = x.results
    /\ x' = XIdle
    /\ pc' = "check"
    /\ UNCHANGED <<outside, waiting, input, cronograma_section, high_confidence, low_confidence,
                   result, prova_range, ri>>

\* Lines 328-330: the call on the whole text when the section gave too little.
CheckFallback ==
    /\ pc = "check"
    /\ IF NeedsFallback(events)
       THEN x' = ExtractInit(input) /\ pc' = "in_full"
       ELSE x' = x /\ pc' = "partition"
    /\ UNCHANGED <<outside, waiting, input, cronograma_section, events, high_confidence,
                   low_confidence, result, prova_range, ri>>

\* Line 330: the whole text's events replace the list.
ReturnFromFull ==
    /\ pc = "in_full" /\ x.pc = "ret"
    /\ events' = x.results
    /\ x' = XIdle
    /\ pc' = "partition"
    /\ UNCHANGED <<outside, waiting, input, cronograma_section, high_confidence, low_confidence,
                   result, prova_range, ri>>

\* Lines 339-352.
Partition ==
    /\ pc = "partition"
    /\ high_confidence' = SelectSeq(events, IsHighConfidence)
    /\ low_confidence' = SelectSeq(events, IsLowConfidence)
    /\ pc' = "high"
    /\ ri' = 1
    /\ UNCHANGED <<outside, waiting, input, cronograma_section, x, events, result, prova_range>>

\* Lines 355-374.
ResolveHigh ==
    /\ pc = "high"
    /\ IF ri <= Len(high_confidence)
       THEN LET st == ResolveEvent([result |-> result, prova_range |-> prova_range],
                                   high_confidence[ri])
            IN  /\ result' = st.result
                /\ prova_range' = st.prova_range
                /\ ri' = ri + 1
                /\ pc' = pc
       ELSE /\ pc' = "low"
            /\ ri' = 1
            /\ UNCHANGED <<result, prova_range>>
    /\ UNCHANGED <<outside, waiting, input, cronograma_section, x, events, high_confidence, low_confidence>>

\* Lines 377-396.
ResolveLow ==
    /\ pc = "low"
    /\ IF ri <= Len(low_confidence)
       THEN LET st == ResolveEvent([result |-> result, prova_range |-> prova_range],
                                   low_confidence[ri])
            IN  /\ result' = st.result
                /\ prova_range' = st.prova_range
                /\ ri' = ri + 1
                /\ pc' = pc
       ELSE /\ pc' = "finish"
            /\ ri' = 0
            /\ UNCHANGED <<result, prova_range>>
    /\ UNCHANGED <<outside, waiting, input, cronograma_section, x, events, high_confidence, low_confidence>>

\* Lines 399-403.
Finish ==
    /\ pc = "finish"
    /\ result' = UseProvaRange(result, prova_range)
    /\ pc' = "done"
    /\ UNCHANGED <<outside, waiting, input, cronograma_section, x, events, high_confidence,
                   low_confidence, prova_range, ri>>

Next ==
    \/ CheckEmpty
    \/ LocateSection
    \/ CallOnSection
    \/ StrategyA
    \/ StrategyBKeyword
    \/ StrategyBOccurrence
    \/ StrategyBHit
    \/ ReturnFromSection
    \/ CheckFallback
    \/ ReturnFromFull
    \/ Partition
    \/ ResolveHigh
    \/ ResolveLow
    \/ Finish

Spec == Init /\ [][Next]_vars

(***************************************************************************)
(* extract_from_text as a function of its argument                         *)
(***************************************************************************)

\* Lines 322-330: the list that is resolved.
events_of(text) ==
    IF /\ cronograma_match(text) # <<>>
       /\ ~NeedsFallback(extract_all_dates(cronograma_match(text)))
    THEN extract_all_dates(cronograma_match(text))
    ELSE extract_all_dates(text)

\* A resolution loop (lines 355-374, 377-396) over the events evs.
RECURSIVE ResolveAll(_, _)
ResolveAll(st, evs) ==
    IF Len(evs) = 0 THEN st ELSE ResolveAll(ResolveEvent(st, evs[1]), Tail(evs))

\* Lines 299-403: the mapping a call on text returns.
extract_from_text(text) ==
    IF Len(text) = 0 THEN EmptyResult
    ELSE UseProvaRange(
             ResolveAll([result |-> EmptyResult, prova_range |-> <<>>],
                        SelectSeq(events_of(text), IsHighConfidence)
                        \o SelectSeq(events_of(text), IsLowConfidence)).result,
             ResolveAll([result |-> EmptyResult, prova_range |-> <<>>],
                        SelectSeq(events_of(text), IsHighConfidence)
                        \o SelectSeq(events_of(text), IsLowConfidence)).prova_range)

(***************************************************************************)
(* classify_event on its own: a label is drawn and classified.             *)
(***************************************************************************)

\* Most words of a drawn label.
MaxLabelWords == 2

LabelWords ==
    {"IsenCAo", "isencao", "inscriCAo", "inscricao", "Prova", "AplicaCAo", "RealizaCAo",
     "HomologaCAo_do", "resultado", "Recurso", "PublicaCAo", "Edital"}

\* The words ws separated by single spaces.
RECURSIVE JoinWords(_)
JoinWords(ws) ==
    IF Len(ws) = 0 THEN <<>>
    ELSE <<T(Head(ws))>> \o (IF Len(ws) > 1 THEN <<T("sp")>> ELSE <<>>) \o JoinWords(Tail(ws))

Labels == {JoinWords(ws) : ws \in SeqsUpTo(LabelWords, MaxLabelWords)}

InitClassify ==
    /\ input \in Labels
    /\ pc = "classify"
    /\ result = EmptyResult
    /\ cronograma_section = <<>>
    /\ x = XIdle
    /\ events = <<>>
    /\ high_confidence = <<>>
    /\ low_confidence = <<>>
    /\ prova_range = <<>>
    /\ ri = 0
    /\ waiting = <<>>
    /\ disk = NoDisk /\ stdout = <<>> /\ now = 0

\* The call classify_event(input); the category is kept as the tipo of an
\* event described by the label.
ClassifyLabel ==
    /\ pc = "classify"
    /\ events' = <<Event(input, NULL, NULL, classify_event(input))>>
    /\ pc' = "classified"
    /\ UNCHANGED <<outside, waiting, input, cronograma_section, x, high_confidence, low_confidence,
                   result, prova_range, ri>>

NextClassify == ClassifyLabel

SpecClassify == InitClassify /\ [][NextClassify]_vars

(***************************************************************************)
(* parse_date_block on its own: a date block is drawn and parsed.          *)
(***************************************************************************)

\* The dates of the drawn blocks: 10/02/2026, 20/02/2026, 29/02/2024 (a leap
\* day) and 31/02/2026 (no such day).
BlockDates == {D(10, 2, 2026), D(20, 2, 2026), D(29, 2, 2024), D(31, 2, 2026)}

\* "Entre D1 e D2", "Entre D1 a D2", "entre D1 e D2", ...
EntreBlock(word, d1, conn, d2) ==
    <<T(word), T("sp"), d1, T("sp"), T(conn), T("sp"), d2>>

\* The drawn blocks: single dates, ranges with the separators " a ", " A ",
\* "a " and " a\n", and Entre phrases with one and with two dates.
Blocks ==
    {<<d>> : d \in BlockDates}
    \cup {<<T("sp"), d, T("sp")>> : d \in BlockDates}
    \cup {<<T(w), T("sp"), d>> : w \in {"Entre", "entre"}, d \in BlockDates}
    \cup UNION {{Range(d1, d2),
                 <<d1, T("sp"), T("A"), T("sp"), d2>>,
                 <<d1, T("a"), T("sp"), d2>>,
                 <<d1, T("sp"), T("a"), T("nl"), d2>>,
                 EntreBlock("Entre", d1, "e", d2),
                 EntreBlock("Entre", d1, "a", d2),
                 EntreBlock("entre", d1, "e", d2),
                 EntreBlock("entre", d1, "a", d2)} : d1 \in BlockDates, d2 \in BlockDates}

InitParse ==
    /\ input \in Blocks
    /\ pc = "parse"
    /\ result = EmptyResult
    /\ cronograma_section = <<>>
    /\ x = XIdle
    /\ events = <<>>
    /\ high_confidence = <<>>
    /\ low_confidence = <<>>
    /\ prova_range = <<>>
    /\ ri = 0
    /\ waiting = <<>>
    /\ disk = NoDisk /\ stdout = <<>> /\ now = 0

\* The call parse_date_block(input); the pair is kept as the start and end
\* of an event described by the block.
ParseBlock ==
    /\ pc = "parse"
    /\ events' = <<Event(input, parse_date_block(input)[1], parse_date_block(input)[2],
                         "outro")>>
    /\ pc' = "parsed"
    /\ UNCHANGED <<outside, waiting, input, cronograma_section, x, high_confidence, low_confidence,
                   result, prova_range, ri>>

SpecParse == InitParse /\ [][ParseBlock]_vars

(***************************************************************************)
(* Two calls of extract_from_text by two threads.  A call's variables are  *)
(* locals of its own frame (lines 299-340, 190-192); the parser object has *)
(* no attributes (lines 282-283) and the module no mutable globals.  One   *)
(* call runs at a time; a thread switch can come between any two steps,    *)
(* and a call that starts after the other has returned is a later call on  *)
(* the same parser.                                                        *)
(***************************************************************************)

\* The texts the two calls are made on: the empty text, lines 4; 1, 2, 3;
\* 7, 4; and 6, 5, and a document with a schedule section of lines 1 and 5.
CallTexts ==
    {JoinLines(ks) : ks \in {<<>>, <<4>>, <<1, 2, 3>>, <<7, 4>>, <<6, 5>>}}
    \cup {Heading \o <<T("nl")>> \o JoinLines(<<1, 5>>)}

\* The frame of the running call.
Running ==
    [input |-> input, pc |-> pc, cronograma_section |-> cronograma_section, x |-> x,
     events |-> events, high_confidence |-> high_confidence,
     low_confidence |-> low_confidence, result |-> result, prova_range |-> prova_range,
     ri |-> ri]

InitCalls ==
    /\ input \in CallTexts
    /\ pc = "start"
    /\ result = EmptyResult
    /\ cronograma_section = <<>>
    /\ x = XIdle
    /\ events = <<>>
    /\ high_confidence = <<>>
    /\ low_confidence = <<>>
    /\ prova_range = <<>>
    /\ ri = 0
    /\ waiting \in {<<[input |-> t, pc |-> "start", cronograma_section |-> <<>>,
                        x |-> XIdle, events |-> <<>>, high_confidence |-> <<>>,
                        low_confidence |-> <<>>, result |-> EmptyResult,
                        prova_range |-> <<>>, ri |-> 0]>> : t \in CallTexts}
    /\ disk = NoDisk /\ stdout = <<>> /\ now = 0

\* The call with frame f goes on.
Resume(f) ==
    /\ input' = f.input
    /\ pc' = f.pc
    /\ cronograma_section' = f.cronograma_section
    /\ x' = f.x
    /\ events' = f.events
    /\ high_confidence' = f.high_confidence
    /\ low_confidence' = f.low_confidence
    /\ result' = f.result
    /\ prova_range' = f.prova_range
    /\ ri' = f.ri

\* Switch with the result mapping kept by the parser object instead of the
\* call: the call switched to goes on with the mapping of the other.
Switch_result_on_parser ==
    /\ Resume([waiting[1] EXCEPT !.result = result])
    /\ waiting' = <<Running>>
    /\ UNCHANGED outside

\* Switch with one de-duplication set for all calls: the call switched to
\* goes on with the set of the other.
Switch_seen_dates_global ==
    /\ Resume([waiting[1] EXCEPT !.x.seen_dates = x.seen_dates])
    /\ waiting' = <<Running>>
    /\ UNCHANGED outside

\* The thread of the other call is scheduled: the running call's frame is
\* set aside as it is and the other one goes on where it was.
Switch ==
    /\ Resume(waiting[1])
    /\ waiting' = <<Running>>
    /\ UNCHANGED outside

SpecCalls == InitCalls /\ [][Next \/ Switch]_vars

(***************************************************************************)
(* normalize_text on its own: a raw text is drawn and normalized.          *)
(***************************************************************************)

\* Most whitespace characters between the label and the date of a drawn text.
MaxGap == 3

Whitespace == {T("sp"), T("tab"), T("nl")}

\* What follows the broken range of a drawn text: nothing, a date line, a
\* label line and a date line, a label on the same line, a label line, a
\* blank line with a label line and a date line.
Tails ==
    { <<>>,
      <<T("nl"), D(25, 2, 2026)>>,
      <<T("nl"), T("Prova"), T("nl"), D(25, 2, 2026)>>,
      <<T("sp"), T("Prova")>>,
      <<T("nl"), T("Prova")>>,
      <<T("nl"), T("nl"), T("Prova"), T("nl"), D(25, 2, 2026)>> }

\* The drawn texts: "Prova" and a date, in either order, with whitespace
\* before, between and after them; whitespace alone; and a range broken after its "a", with a
\* label before it or not and with each of the tails.
RawTexts ==
    {lead \o <<ends[1]>> \o gap \o <<ends[2]>> \o trail :
        ends \in {<<T("Prova"), D(10, 2, 2026)>>, <<D(10, 2, 2026), T("Prova")>>},
        lead \in SeqsUpTo(Whitespace, 1), gap \in SeqsUpTo(Whitespace, MaxGap),
        trail \in SeqsUpTo(Whitespace, 1)}
    \cup SeqsUpTo(Whitespace, 2)
    \cup {head \o <<D(10, 2, 2026)>> \o sep \o <<D(20, 2, 2026)>> \o tail :
            head \in {<<>>, <<T("Prova"), T("colon"), T("sp")>>},
            sep \in {<<T("sp"), T("a"), T("nl")>>, <<T("a"), T("sp"), T("nl"), T("sp")>>},
            tail \in Tails}

InitNormalize ==
    /\ input \in RawTexts
    /\ pc = "normalize"
    /\ result = EmptyResult
    /\ cronograma_section = <<>>
    /\ x = XIdle
    /\ events = <<>>
    /\ high_confidence = <<>>
    /\ low_confidence = <<>>
    /\ prova_range = <<>>
    /\ ri = 0
    /\ waiting = <<>>
    /\ disk = NoDisk /\ stdout = <<>> /\ now = 0

\* The call normalize_text(input) of line 190; its value is kept as the text
\* of the extraction.
NormalizeText ==
    /\ pc = "normalize"
    /\ x' = [XIdle EXCEPT !.arg = input, !.text = normalize_text(input)]
    /\ pc' = "normalized"
    /\ UNCHANGED <<outside, waiting, input, cronograma_section, events, high_confidence,
                   low_confidence, result, prova_range, ri>>

SpecNormalize == InitNormalize /\ [][NormalizeText]_vars

(***************************************************************************)
(* extract_vagas (src/extractor.py): a text is drawn and the vacancy       *)
(* counts are read from it.  A number is one lexeme of kind "int" that     *)
(* holds its value.                                                        *)
(***************************************************************************)

\* None as the value of a count.
NoCount == -1

\* Most phrases of a drawn text.
MaxPhrases == 2

\* The numbers of the drawn texts: 0, 3, 5 and the five-digit 12345.
Counts == {0, 3, 5, 12345}

Digits(n) ==
    IF n < 10 THEN 1 ELSE IF n < 100 THEN 2 ELSE IF n < 1000 THEN 3
    ELSE IF n < 10000 THEN 4 ELSE 5

Number(n) == [k |-> "int", v |-> n, lo |-> 0, hi |-> Digits(n)]

\* The number made of the first `most` digits of n: what [0-9]{1,most}
\* takes of it; all of n for most = 0, what [0-9]+ takes.
Taken(n, most) ==
    IF most = 0 \/ Digits(n) <= most THEN n ELSE n \div 10 ^ (Digits(n) - most)

\* The first number after lexeme i of text, if there is one.
NumberAfter(text, i) == Least({j \in (i + 1)..Len(text) : text[j].k = "int"})

\* A keyword of kinds ends `tail(kind)` characters before the end of lexeme
\* i and is followed, after at most `most` characters that are no digits
\* (only ":", "-" and whitespace if seps), by a number.
FollowedByNumber(text, i, tail, most, seps) ==
    /\ \E j \in (i + 1)..Len(text) : text[j].k = "int"
    /\ tail + CharLen(SubSeq(text, i + 1, NumberAfter(text, i) - 1)) <= most
    /\ seps => /\ tail = 0
               /\ \A h \in (i + 1)..(NumberAfter(text, i) - 1) :
                     text[h].k \in {"colon", "dash", "sp", "tab", "nl"}

\* re.search: the number of the leftmost lexeme among those at S that match,
\* cut to `digits` digits; None when S is empty.
Searched(text, S, digits) ==
    IF S = {} THEN NoCount ELSE Taken(text[NumberAfter(text, Least(S))].v, digits)

\* Line 405: (?:Total de vagas|Vagas totais|Vagas)[:\s\-]{0,10}([0-9]+)
total_match(text) ==
    Searched(text,
             {i \in 1..Len(text) :
                 /\ text[i].k \in {"Total_de_vagas", "Vagas_totais", "Vagas"}
                 /\ FollowedByNumber(text, i, 0, 10, TRUE)},
             0)

\* Line 410: Vagas?[^\d]{0,10}([0-9]{1,4}); in "Vagas totais" the keyword
\* ends 7 characters before the end of the lexeme.
m(text) ==
    Searched(text,
             {i \in 1..Len(text) :
                 /\ text[i].k \in {"Total_de_vagas", "Vagas_totais", "Vagas", "Vaga"}
                 /\ FollowedByNumber(text, i, IF text[i].k = "Vagas_totais" THEN 7 ELSE 0,
                                     10, FALSE)},
             4)

\* Line 414: PCD[:\s\-]{0,10}([0-9]+)
pcd_match(text) ==
    Searched(text,
             {i \in 1..Len(text) : text[i].k = "PCD" /\ FollowedByNumber(text, i, 0, 10, TRUE)},
             0)

\* Lines 420-426: the first digits, three at most, within 60 characters from
\* the start of the first PPI keyword.
nm(text) ==
    Searched(text,
             {i \in {Least({h \in 1..Len(text) : text[h].k = "PPI"} \cup {Len(text) + 1})} :
                 /\ i <= Len(text)
                 /\ FollowedByNumber(text, i, CLen(text[i]), 59, FALSE)},
             3)

\* The consistency check without the comparison.
Consistent_unchecked(vagas) == vagas

\* Lines 429-435: a pcd above the total is discarded.
Consistent(vagas) ==
    IF vagas.total # NoCount /\ vagas.pcd # NoCount /\ vagas.pcd > vagas.total
    THEN [vagas EXCEPT !.pcd = NoCount] ELSE vagas

\* Lines 396-437.
extract_vagas(text) ==
    Consistent([total |-> IF total_match(text) # NoCount THEN total_match(text) ELSE m(text),
                ampla_concorrencia |-> NoCount,
                pcd |-> pcd_match(text),
                ppiq |-> nm(text)])

\* The phrases drawn texts are made of: "Vagas: n", "Total de vagas - n",
\* "Vagas totais n", "Vaga cargo n", "Vagas PCD: n", "PCD: n", "PPI: n",
\* "Total: n" and "cargo".
Phrases ==
    UNION {{ <<T("Vagas"), T("colon"), T("sp"), Number(n)>>,
             <<T("Total_de_vagas"), T("sp"), T("dash"), T("sp"), Number(n)>>,
             <<T("Vagas_totais"), T("sp"), Number(n)>>,
             <<T("Vaga"), T("sp"), T("cargo"), T("sp"), Number(n)>>,
             <<T("Vagas"), T("sp"), T("PCD"), T("colon"), T("sp"), Number(n)>>,
             <<T("PCD"), T("colon"), T("sp"), Number(n)>>,
             <<T("PPI"), T("colon"), T("sp"), Number(n)>>,
             <<T("Total"), T("colon"), T("sp"), Number(n)>> } : n \in Counts}
    \cup {<<T("cargo")>>}

\* The phrases ps, one per line.
RECURSIVE JoinPhrases(_)
JoinPhrases(ps) ==
    IF Len(ps) = 0 THEN <<>>
    ELSE ps[1] \o (IF Len(ps) > 1 THEN <<T("nl")>> ELSE <<>>) \o JoinPhrases(Tail(ps))

InitVagas ==
    /\ input \in {JoinPhrases(ps) : ps \in SeqsUpTo(Phrases, MaxPhrases)}
    /\ pc = "vagas"
    /\ result = EmptyResult
    /\ cronograma_section = <<>>
    /\ x = XIdle
    /\ events = <<>>
    /\ high_confidence = <<>>
    /\ low_confidence = <<>>
    /\ prova_range = <<>>
    /\ ri = 0
    /\ waiting = <<>>
    /\ disk = NoDisk /\ stdout = <<>> /\ now = 0

\* The call extract_vagas(input); result holds the mapping it returns.
ExtractVagas ==
    /\ pc = "vagas"
    /\ result' = extract_vagas(input)
    /\ pc' = "vagas_done"
    /\ UNCHANGED <<outside, waiting, input, cronograma_section, x, events, high_confidence,
                   low_confidence, prova_range, ri>>

SpecVagas == InitVagas /\ [][ExtractVagas]_vars

(***************************************************************************)
(* apply_review (src/apply_review.py): the rows of a review CSV are        *)
(* applied to the summary files.  input is the command line: the rows of   *)
(* the CSV not read yet, whether the CSV exists and whether --apply was    *)
(* passed; x holds the locals of the running apply_row call.               *)
(***************************************************************************)

\* Most rows of the CSV.
MaxRows == 2

\* The latest time of the clock.
MaxTime == 2

\* The values of a summary: None, a string, an integer or the banca mapping
\* (nome, tipo with "" for a missing key, confianca_extracao in tenths with
\* 0 for a missing key); "_review" holds the time of the last review.
None ==
    [is |-> "None", str |-> <<>>, int |-> 0, nome |-> <<>>, tipo |-> "",
     confianca_extracao |-> 0]

Str(s) == [None EXCEPT !.is = "str", !.str = s]

Integer(n) == [None EXCEPT !.is = "int", !.int = n]

Dict(nome, tipo, confianca_extracao) ==
    [None EXCEPT !.is = "dict", !.nome = nome, !.tipo = tipo,
                 !.confianca_extracao = confianca_extracao]

\* Lines 17-28, with one field of each kind: a string field, banca, and an
\* integer field; k is the section and the key of the summary.
FIELD_MAP ==
    << [csv_field |-> "cargo",       key |-> "cargo", k |-> "metadata.cargo"],
       [csv_field |-> "banca",       key |-> "banca", k |-> "metadata.banca"],
       [csv_field |-> "vagas_total", key |-> "total", k |-> "vagas.total"] >>

\* Lines 39-46: int(raw), else int(float(raw without "." ...)), else None.
ParsedInt(raw) ==
    IF Len(raw) = 1 /\ raw[1].k = "int" THEN Integer(raw[1].v)
    ELSE IF /\ Len(raw) = 3
            /\ raw[1].k = "int" /\ raw[2].k = "dot" /\ raw[3].k = "int"
         THEN Integer(raw[1].v * 10 ^ Digits(raw[3].v) + raw[3].v)
         ELSE None

\* Lines 31-48.
parse_value(target_field, raw) ==
    IF Strip(raw) = <<>> THEN None
    ELSE IF target_field \in {"total", "pcd", "ppiq"} THEN ParsedInt(Strip(raw))
         ELSE Str(Strip(raw))

\* Lines 79-90: the banca mapping with the name of the CSV.  A mapping that
\* the summary already holds is the very object that is changed.
banca_obj(current, new_val) ==
    [(IF current.is = "dict" THEN current
      ELSE IF current.is = "str" /\ current.str # <<>>
           THEN Dict(current.str, "", 0) ELSE Dict(<<>>, "", 0))
     EXCEPT !.nome = new_val.str,
            !.tipo = IF @ = "" THEN "manual" ELSE @,
            !.confianca_extracao = 10]

\* Lines 93-96 for the values current and new_val of the field f.
Changed(f, current, new_val, st) ==
    IF \/ new_val.is = "None"
       \/ new_val.is = "str" /\ current.is = "str" /\ Strip(new_val.str) = Strip(current.str)
       \/ new_val = current
    THEN st
    ELSE [st EXCEPT !.changes = Append(@, [k |-> f.k, old |-> current, new |-> new_val])]

\* Lines 68-96: one round of the loop, for field f of the row, on the data
\* and the changes st.
Compared(f, row, st) ==
    IF Strip(row[f.csv_field]) = <<>> THEN st
    ELSE IF f.csv_field # "banca"
         THEN Changed(f, st.data[f.k], parse_value(f.key, row[f.csv_field]), st)
         ELSE IF st.data[f.k].is = "dict"
              THEN Changed(f,
                           banca_obj(st.data[f.k], parse_value(f.key, row[f.csv_field])),
                           banca_obj(st.data[f.k], parse_value(f.key, row[f.csv_field])),
                           [st EXCEPT !.data[f.k] =
                               banca_obj(@, parse_value(f.key, row[f.csv_field]))])
              ELSE Changed(f, st.data[f.k],
                           banca_obj(st.data[f.k], parse_value(f.key, row[f.csv_field])),
                           st)

\* Lines 62-96: the data read from the summary and the changes of the row.
Planned(row, data) ==
    Compared(FIELD_MAP[3], row,
        Compared(FIELD_MAP[2], row,
            Compared(FIELD_MAP[1], row, [data |-> data, changes |-> <<>>])))

\* Lines 116-126.
Applied(data, changes, timestamp) ==
    [k \in DOMAIN data |->
        IF k = "_review" THEN Integer(timestamp)
        ELSE IF \E i \in 1..Len(changes) : changes[i].k = k
             THEN changes[CHOOSE i \in 1..Len(changes) : changes[i].k = k].new
             ELSE data[k]]

\* A printed line.
Line(msg, file) == [msg |-> msg, file |-> file, k |-> "", old |-> None, new |-> None]

\* Lines 102-104.
PlannedLines(filename, changes) ==
    <<Line("Planned changes for", filename)>>
    \o [i \in 1..Len(changes) |->
           [msg |-> " - ", file |-> filename, k |-> changes[i].k,
            old |-> changes[i].old, new |-> changes[i].new]]

\* apply_row going on to the write with no backup made.
AfterPlan_no_backup(apply_changes) == IF apply_changes THEN "write" ELSE "main"

\* apply_row going on to the backup whatever apply_changes is.
AfterPlan_always(apply_changes) == "backup"

\* Lines 106-107: where apply_row goes after the planned changes are printed.
AfterPlan(apply_changes) == IF apply_changes THEN "backup" ELSE "main"

\* The locals of apply_row outside a call.
NoRow == [filename |-> "", data |-> <<>>, changes |-> <<>>, timestamp |-> 0]

\* The summaries a.json may hold before the run.
Summaries ==
    { [k \in {"metadata.cargo", "metadata.banca", "vagas.total", "_review"} |->
          CASE k = "metadata.cargo" -> cargo
            [] k = "metadata.banca" -> banca
            [] k = "vagas.total"    -> total
            [] OTHER                -> None] :
      cargo \in {Str(<<T("Analista")>>)},
      banca \in {None, Str(<<T("Cebraspe")>>), Dict(<<T("Cebraspe")>>, "organizadora", 8)},
      total \in {None, Integer(7)} }

\* The rows of the CSV: a row for a.json with each field empty or set, a row
\* with no file and a row for a summary that does not exist.
Rows ==
    { [file |-> "a.json", cargo |-> cargo, banca |-> banca, vagas_total |-> vagas_total] :
        cargo \in {<<>>, <<T("sp"), T("Tecnico"), T("sp")>>},
        banca \in {<<>>, <<T("FGV")>>},
        vagas_total \in {<<>>, <<Number(7)>>, <<T("cargo")>>} }
    \cup { [file |-> f, cargo |-> <<T("Analista")>>, banca |-> <<>>, vagas_total |-> <<>>] :
             f \in {"", "b.json"} }

InitApply ==
    /\ input \in [csv : SeqsUpTo(Rows, MaxRows), exists : BOOLEAN, apply : BOOLEAN]
    /\ input.exists \/ input.csv = <<>>
    /\ pc = "apply_review"
    /\ disk \in {[NoDisk EXCEPT !.summaries = [f \in {"a.json"} |-> data]] : data \in Summaries}
    /\ stdout = <<>>
    /\ now = 0
    /\ x = NoRow
    /\ result = EmptyResult
    /\ cronograma_section = <<>>
    /\ events = <<>>
    /\ high_confidence = <<>>
    /\ low_confidence = <<>>
    /\ prova_range = <<>>
    /\ ri = 0
    /\ waiting = <<>>

parser == <<cronograma_section, events, high_confidence, low_confidence, result,
            prova_range, ri, waiting>>

\* Lines 189-198 of main.
OpenCsv ==
    /\ pc = "apply_review"
    /\ IF input.exists
       THEN pc' = "main" /\ stdout' = stdout
       ELSE pc' = "exit" /\ stdout' = Append(stdout, Line("CSV not found", ""))
    /\ UNCHANGED <<input, x, disk, now, parser>>

\* Lines 200-201 and 51-107: the next row is read and apply_row is called
\* with it; the call returns, or goes on to the backup.
ApplyRow ==
    /\ pc = "main"
    /\ input.csv # <<>>
    /\ input' = [input EXCEPT !.csv = Tail(@)]
    /\ IF Head(input.csv).file = ""
       THEN /\ stdout' = Append(stdout, Line("Skipping row with no file field", ""))
            /\ UNCHANGED <<pc, x>>
       ELSE IF Head(input.csv).file \notin DOMAIN disk.summaries
       THEN /\ stdout' = Append(stdout, Line("Summary not found", Head(input.csv).file))
            /\ UNCHANGED <<pc, x>>
       ELSE IF Planned(Head(input.csv), disk.summaries[Head(input.csv).file]).changes = <<>>
       THEN /\ stdout' = Append(stdout, Line("No changes for", Head(input.csv).file))
            /\ UNCHANGED <<pc, x>>
       ELSE /\ stdout' = stdout \o PlannedLines(Head(input.csv).file,
                             Planned(Head(input.csv),
                                     disk.summaries[Head(input.csv).file]).changes)
            /\ pc' = AfterPlan(input.apply)
            /\ x' = IF AfterPlan(input.apply) = "main" THEN NoRow
                    ELSE [filename |-> Head(input.csv).file,
                          data |-> Planned(Head(input.csv),
                                           disk.summaries[Head(input.csv).file]).data,
                          changes |-> Planned(Head(input.csv),
                                              disk.summaries[Head(input.csv).file]).changes,
                          timestamp |-> 0]
    /\ UNCHANGED <<disk, now, parser>>

\* Lines 109-113: the clock is read and the summary is copied to the backup
\* directory.
BackupOriginal ==
    /\ pc = "backup"
    /\ \E timestamp \in now..MaxTime :
          /\ now' = timestamp
          /\ x' = [x EXCEPT !.timestamp = timestamp]
          /\ disk' = [disk EXCEPT !.backups =
                         (<<x.filename, timestamp>> :> disk.summaries[x.filename]) @@ @]
    /\ pc' = "write"
    /\ UNCHANGED <<input, stdout, parser>>

\* Lines 110-113: mkdir or copy2 raises, and the run ends with the error.
BackupRaises ==
    /\ pc = "backup"
    /\ pc' = "raised"
    /\ UNCHANGED <<input, x, disk, stdout, now, parser>>

\* Lines 115-132.
WriteSummary ==
    /\ pc = "write"
    /\ x' = [x EXCEPT !.data = Applied(x.data, x.changes, x.timestamp)]
    /\ disk' = [disk EXCEPT !.summaries[x.filename] =
                                Applied(x.data, x.changes, x.timestamp)]
    /\ stdout' = Append(stdout, Line("Applied changes and backed up to", x.filename))
    /\ pc' = "export"
    /\ UNCHANGED <<input, now, parser>>

\* Lines 135-176: the clock is read again and the reviewed example is written.
ExportExample ==
    /\ pc = "export"
    /\ \E ts \in now..MaxTime :
          /\ now' = ts
          /\ disk' = [disk EXCEPT !.reviewed_examples =
                         (<<x.filename, ts>> :>
                              [summary_file |-> x.filename, timestamp |-> x.timestamp,
                               changes |-> x.changes]) @@ @]
    /\ stdout' = Append(stdout, Line("Exported reviewed example to", x.filename))
    /\ pc' = "main"
    /\ x' = NoRow
    /\ UNCHANGED <<input, parser>>

\* Lines 177-178: the export raises and a warning is printed.
ExportRaises ==
    /\ pc = "export"
    /\ stdout' = Append(stdout, Line("Warning: failed to export reviewed example", x.filename))
    /\ pc' = "main"
    /\ x' = NoRow
    /\ UNCHANGED <<input, disk, now, parser>>

\* Line 200: no row is left.
MainReturn ==
    /\ pc = "main"
    /\ input.csv = <<>>
    /\ pc' = "exit"
    /\ UNCHANGED <<input, x, disk, stdout, now, parser>>

SpecApply ==
    InitApply /\ [][OpenCsv \/ ApplyRow \/ BackupOriginal \/ BackupRaises \/ WriteSummary
                    \/ ExportExample \/ ExportRaises \/ MainReturn]_vars

(***************************************************************************)
(* The section regex on its own (lines 311-319): a document with a heading *)
(* is drawn and the section is located.                                    *)
(***************************************************************************)

\* Most lines after the heading line of a drawn document.
MaxBodyParts == 2

\* The lines after the heading: sixty letters, 121 characters, schedule line
\* 1 (45 characters) and 11,900 letters.
BodyParts ==
    {<<T("Lorem")>>, <<T("Lorem"), T("sp"), T("Lorem")>>, LineKind(1), <<T("Filler")>>}

\* Documents with the heading CRONOGRAMA: an optional line before it, the
\* rest of the heading line, the lines after it, and then nothing, a line
\* break, an annex or a numbered heading "2. Prova: ...".
LocateDocs ==
    {pre \o <<T("CRONOGRAMA")>> \o eol \o JoinPhrases(ps) \o post :
        pre \in {<<>>, LineKind(4) \o <<T("nl")>>},
        eol \in {<<>>, <<T("nl")>>, <<T("colon"), T("nl")>>},
        ps \in SeqsUpTo(BodyParts, MaxBodyParts),
        post \in {<<>>, <<T("nl")>>, <<T("nl"), T("ANEXO"), T("nl")>> \o LineKind(3),
                  <<T("nl"), T("num"), T("dot"), T("sp")>> \o LineKind(3)}}

InitLocate ==
    /\ input \in LocateDocs
    /\ pc = "locate"
    /\ result = EmptyResult
    /\ cronograma_section = <<>>
    /\ x = XIdle
    /\ events = <<>>
    /\ high_confidence = <<>>
    /\ low_confidence = <<>>
    /\ prova_range = <<>>
    /\ ri = 0
    /\ waiting = <<>>
    /\ disk = NoDisk /\ stdout = <<>> /\ now = 0

SpecLocate == InitLocate /\ [][LocateSection]_vars

(***************************************************************************)
(* extract_all_dates on its own: a text is drawn and the function is       *)
(* called on it (as the call on the whole text is made, lines 328-330).    *)
(***************************************************************************)

\* Most filler words before the date block of a drawn window text.
MaxPad == 9

\* k times "Edital ".
RECURSIVE Pad(_)
Pad(k) == IF k = 0 THEN <<>> ELSE <<T("Edital"), T("sp")>> \o Pad(k - 1)

\* "Inscrições " and two filler words of sixty letters (133 characters),
\* then 5 to MaxPad words "Edital " (7 characters each) and a date block:
\* the block starts 168, 175, 182, 189 or 196 characters after the keyword.
WindowTexts ==
    {<<T("InscriCOes"), T("sp"), T("Lorem"), T("sp"), T("Lorem"), T("sp")>> \o Pad(k) \o block :
        k \in 5..MaxPad,
        block \in {<<D(10, 2, 2026)>>, Range(D(10, 2, 2026), D(15, 2, 2026))}}

\* Lines with a date that is no real day at the start of the block:
\* "Inscrições: 31/02/2026 a 20/02/2026" and "Isenção: 31/02/2026".
BadStartLines ==
    {Labelled(<<T("InscriCOes")>>, Range(D(31, 2, 2026), D(20, 2, 2026))),
     Labelled(<<T("IsenCAo")>>, <<D(31, 2, 2026)>>)}

\* "inscricao: 11/02/2026": the singular keyword without diacritics.
SingularLine == Labelled(<<T("inscricao")>>, <<D(11, 2, 2026)>>)

DateTexts ==
    {JoinLines(ks) : ks \in SeqsUpTo(DOMAIN Lines, 2)}
    \cup WindowTexts
    \cup BadStartLines
    \cup {b \o <<T("nl")>> \o LineKind(n) : b \in BadStartLines, n \in {2, 3}}
    \cup {SingularLine, LineKind(2) \o <<T("nl")>> \o SingularLine}

InitDates ==
    /\ input \in DateTexts
    /\ pc = "in_full"
    /\ x = ExtractInit(input)
    /\ result = EmptyResult
    /\ cronograma_section = <<>>
    /\ events = <<>>
    /\ high_confidence = <<>>
    /\ low_confidence = <<>>
    /\ prova_range = <<>>
    /\ ri = 0
    /\ waiting = <<>>
    /\ disk = NoDisk /\ stdout = <<>> /\ now = 0

SpecDates ==
    InitDates /\ [][StrategyA \/ StrategyBKeyword \/ StrategyBOccurrence \/ StrategyBHit
                    \/ ReturnFromFull]_vars

(***************************************************************************)
(* scrape_concursos (src/extraction/scraper.py): x holds the locals of the *)
(* call (attempt, the response bound last, the outcome of the last GET and *)
(* the number of GETs sent), now is advanced by time.sleep, result is the  *)
(* list returned.  A search result is modelled by its urlTitle.            *)
(***************************************************************************)

\* Line 36.
max_retries == 5

\* What requests.get and raise_for_status can give: a response with its
\* status, or an exception.
NoResponse == [kind |-> "unbound", status |-> 0]

Response(status) == [kind |-> "response", status |-> status]

Raised(exception) == [kind |-> exception, status |-> 0]

Outcomes ==
    {Response(st) : st \in {200, 404, 429, 500, 503}}
    \cup {Raised(e) : e \in {"ConnectionError", "Timeout", "TooManyRedirects"}}

\* The pages a good response can hold: no script tag, a script tag with
\* text that is no JSON, or one whose jsonArray holds these urlTitles.
Pages ==
    {[script |-> FALSE, json |-> FALSE, jsonArray |-> <<>>],
     [script |-> TRUE, json |-> FALSE, jsonArray |-> <<>>]}
    \cup {[script |-> TRUE, json |-> TRUE, jsonArray |-> a] :
             a \in {<<>>, <<"edital-1">>, <<"edital-1", "edital-2">>}}

\* Lines 69-109.
concursos(page) ==
    IF page.script /\ page.json
    THEN [j \in 1..Len(page.jsonArray) |->
             [url |-> <<"https://www.in.gov.br/web/dou/-/", page.jsonArray[j]>>,
              url_title |-> page.jsonArray[j]]] \o <<>>
    ELSE <<>>

IsServerError(o) == o.kind = "response" /\ 500 <= o.status /\ o.status < 600

IsClientError(o) == o.kind = "response" /\ 400 <= o.status /\ o.status < 500

IsConnectionFailure(o) == o.kind \in {"ConnectionError", "Timeout"}

\* The retry test that never gives up.
MayRetry_always(attempt) == TRUE

\* Lines 45 and 57: attempt < max_retries - 1.
MayRetry(attempt) == attempt < max_retries - 1

InitScrape ==
    /\ pc = "get"
    /\ x = [attempt |-> 0, response |-> NoResponse, last |-> NoResponse, sent |-> 0]
    /\ input \in {<<"01-02-2026", "28-02-2026", "do3">>, <<"01-02-2026", "01-02-2026", "do1">>}
    /\ result = <<>>
    /\ stdout = <<>>
    /\ now = 0
    /\ disk = NoDisk
    /\ cronograma_section = <<>>
    /\ events = <<>>
    /\ high_confidence = <<>>
    /\ low_confidence = <<>>
    /\ prova_range = <<>>
    /\ ri = 0
    /\ waiting = <<>>

\* The round of the loop has ended without break or return: the next round,
\* or line 65 when range(max_retries) is used up.
NextRound(attempt) == IF attempt + 1 < max_retries THEN "get" ELSE "parse"

\* Lines 37-63: one round of the loop, with outcome o of the GET.
Attempt(o) ==
    /\ pc = "get"
    /\ IF o.kind = "response" /\ o.status < 400
       THEN \* line 41: break
            /\ x' = [x EXCEPT !.response = o, !.last = o, !.sent = @ + 1]
            /\ pc' = "parse"
            /\ UNCHANGED <<stdout, now, result>>
       ELSE IF IsServerError(o) \/ IsConnectionFailure(o)
       THEN IF MayRetry(x.attempt)
            THEN \* lines 46-48 and 58-60
                 /\ x' = [x EXCEPT !.response = IF o.kind = "response" THEN o ELSE @,
                                   !.last = o, !.sent = @ + 1, !.attempt = @ + 1]
                 /\ stdout' = Append(stdout, [msg |-> "Retrying", outcome |-> o,
                                              wait_time |-> 2 ^ x.attempt])
                 /\ now' = now + 2 ^ x.attempt
                 /\ pc' = NextRound(x.attempt)
                 /\ UNCHANGED result
            ELSE \* lines 50-51 and 62-63
                 /\ x' = [x EXCEPT !.response = IF o.kind = "response" THEN o ELSE @,
                                   !.last = o, !.sent = @ + 1]
                 /\ stdout' = Append(stdout, [msg |-> "Failed after max_retries attempts",
                                              outcome |-> o, wait_time |-> 0])
                 /\ result' = <<>>
                 /\ pc' = "returned"
                 /\ UNCHANGED now
       ELSE IF IsClientError(o)
       THEN \* lines 54-55
            /\ x' = [x EXCEPT !.response = o, !.last = o, !.sent = @ + 1]
            /\ stdout' = Append(stdout, [msg |-> "Client error", outcome |-> o,
                                         wait_time |-> 0])
            /\ result' = <<>>
            /\ pc' = "returned"
            /\ UNCHANGED now
       ELSE \* an exception no handler catches leaves the call
            /\ x' = [x EXCEPT !.last = o, !.sent = @ + 1]
            /\ pc' = "raised"
            /\ UNCHANGED <<stdout, now, result>>
    /\ UNCHANGED <<input, disk, cronograma_section, events, high_confidence, low_confidence,
                   prova_range, ri, waiting>>

Get == \E o \in Outcomes : Attempt(o)

\* Lines 65-109: the page of the response is parsed and the list returned.
ParsePage ==
    /\ pc = "parse"
    /\ \E page \in Pages :
          /\ result' = concursos(page)
          /\ stdout' = IF ~page.script
                       THEN Append(stdout, [msg |-> "Error: Could not find results JSON in page",
                                            outcome |-> x.last, wait_time |-> 0])
                       ELSE IF ~page.json
                       THEN Append(stdout, [msg |-> "Error parsing JSON",
                                            outcome |-> x.last, wait_time |-> 0])
                       ELSE stdout
    /\ pc' = "returned"
    /\ UNCHANGED <<input, x, now, disk, cronograma_section, events, high_confidence,
                   low_confidence, prova_range, ri, waiting>>

SpecScrape == InitScrape /\ [][Get \/ ParsePage]_vars

(***************************************************************************)
(* extract_from_text on texts with a keyword written with the long s       *)
(***************************************************************************)

\* The pieces the texts are composed of:
\*   1  INſCRIÇÕES: 10/02/2026.
\*   2  Inscrições. Período de 20/02/2026
\*   3  Isenção: 12/02/2026
\*   4  Prova: 21/02/2026 a 22/02/2026
FoldLines ==
    << Labelled(<<T("INSCRICOES_long_s")>>, <<D(10, 2, 2026)>>) \o <<T("dot")>>,
       <<T("InscriCOes"), T("dot"), T("sp"), T("PerIodo_de"), T("sp"), D(20, 2, 2026)>>,
       LineKind(2),
       LineKind(5) >>

\* What stands between two pieces: a line break, or two words of sixty
\* letters.
FoldGaps == {<<T("nl")>>, <<T("sp"), T("Lorem"), T("sp"), T("Lorem"), T("sp")>>}

FoldTexts ==
    {<<>>}
    \cup {FoldLines[i] : i \in DOMAIN FoldLines}
    \cup {FoldLines[i] \o g \o FoldLines[j] :
             i \in DOMAIN FoldLines, j \in DOMAIN FoldLines, g \in FoldGaps}
    \cup {FoldLines[1] \o <<T("nl")>> \o d : d \in SectionDocs}

InitFold ==
    /\ input \in FoldTexts
    /\ pc = "start"
    /\ result = EmptyResult
    /\ cronograma_section = <<>>
    /\ x = XIdle
    /\ events = <<>>
    /\ high_confidence = <<>>
    /\ low_confidence = <<>>
    /\ prova_range = <<>>
    /\ ri = 0
    /\ waiting = <<>>
    /\ disk = NoDisk /\ stdout = <<>> /\ now = 0

SpecFold == InitFold /\ [][Next]_vars

(***************************************************************************)
(* Properties                                                              *)
(***************************************************************************)

\* The events in the order field resolution scans them: High, then Low.
Scanned == high_confidence \o low_confidence

RangedProva(e) == e.tipo = "prova" /\ e.data_fim # NULL

SingleProva(e) == e.tipo = "prova" /\ e.data_fim = NULL

IsInscricao(e) == e.tipo = "inscricao"

IsIsencao(e) == e.tipo = "isencao"

\* C1: when resolution has finished, data_prova is the start of the first
\* ranged prova event of the scanned sequence if there is one, whatever single
\* prova events come before it; otherwise the start of the first single prova
\* event; otherwise null.
C1_ExamDate ==
    pc = "done" =>
        result.data_prova =
            IF SelectSeq(Scanned, RangedProva) # <<>>
              THEN SelectSeq(Scanned, RangedProva)[1].data_inicio
            ELSE IF SelectSeq(Scanned, SingleProva) # <<>>
              THEN SelectSeq(Scanned, SingleProva)[1].data_inicio
            ELSE NULL

\* A finished run in which a single prova event was scanned before a ranged
\* one with another start, and data_prova is the range's start.
C1_RangeAfterSingle ==
    /\ pc = "done"
    /\ \E i, j \in 1..Len(Scanned) :
          /\ i < j
          /\ SingleProva(Scanned[i])
          /\ RangedProva(Scanned[j])
          /\ Scanned[i].data_inicio # Scanned[j].data_inicio
          /\ result.data_prova = Scanned[j].data_inicio

\* "Período de inscrição: 10/02/2026 a 15/02/2026\nIsenção: 12/02/2026\n
\* Prova: 20/02/2026"
ExampleText ==
    << T("PerIodo_de"), T("sp"), T("inscriCAo"), T("colon"), T("sp"),
       DT(10022026), T("sp"), T("a"), T("sp"), DT(15022026), T("nl"),
       T("IsenCAo"), T("colon"), T("sp"), DT(12022026), T("nl"),
       T("Prova"), T("colon"), T("sp"), DT(20022026) >>

\* C2: the whole engine on the three-line example text returns
\* inscricao_inicio 2026-02-10, inscricao_fim 2026-02-15, isencao_inicio
\* 2026-02-12 and data_prova 2026-02-20.
C2_Example ==
    pc = "done" /\ input = ExampleText =>
        result = [inscricao_inicio |-> 20260210, inscricao_fim |-> 20260215,
                  isencao_inicio |-> 20260212, data_prova |-> 20260220]

\* The run on the example text has finished, after both strategies emitted.
C2_ExampleDone == pc = "done" /\ input = ExampleText /\ Len(events) >= 4

\* C3: on the empty string the call goes from its start straight to its
\* return: all four fields stay null, no section is looked for and no
\* extract_all_dates call is made.
C3_EmptyText ==
    input = <<>> =>
        /\ pc \in {"start", "done"}
        /\ \A f \in DOMAIN result : result[f] = NULL
        /\ cronograma_section = <<>>
        /\ x.pc = "idle"
        /\ events = <<>>

\* The call on the empty string has returned.
C3_EmptyReturned == input = <<>> /\ pc = "done"

\* An ISO date YYYYMMDD of a real calendar day.
IsIsoDate(n) ==
    /\ n \div 10000 \in 1..9999
    /\ (n \div 100) % 100 \in 1..12
    /\ n % 100 \in 1..DaysInMonth((n \div 100) % 100, n \div 10000)

\* How far the call has got, as numbers that are compared left to right:
\* the place in extract_from_text, the strategy of the running
\* extract_all_dates call, its date match, keyword, occurrence and hit, and
\* the event of the running resolution loop.
Place ==
    CASE pc = "start" -> 0
      [] pc = "locate" -> 1
      [] pc = "section" -> 2
      [] pc = "in_section" -> 3
      [] pc = "check" -> 4
      [] pc = "in_full" -> 5
      [] pc = "partition" -> 6
      [] pc = "high" -> 7
      [] pc = "low" -> 8
      [] pc = "finish" -> 9
      [] OTHER -> 10

Strategy ==
    CASE x.pc = "idle" -> 0
      [] x.pc = "A" -> 1
      [] x.pc \in {"Bkw", "Bocc", "Bhit"} -> 2
      [] OTHER -> 3

Progress == <<Place, Strategy, x.mi, x.kwi, x.oi, x.hj, ri>>

Before(p, q) == \E i \in 1..Len(p) : p[i] < q[i] /\ \A j \in 1..(i - 1) : p[j] = q[j]

\* A step of the call can be taken: each step is guarded by these places only.
CanStep ==
    \/ pc \in {"start", "locate", "section", "check", "partition", "high", "low", "finish"}
    \/ pc \in {"in_section", "in_full"} /\ x.pc \in {"A", "Bkw", "Bocc", "Bhit", "ret"}

\* C4: the call always goes on until it returns (before the return a step
\* can be taken, and every step taken brings the call further, so that it
\* cannot go on for ever), and the result always has exactly the four keys,
\* each null or the ISO date of a real calendar day.
C4_WellFormed ==
    /\ [](/\ DOMAIN result = {"inscricao_inicio", "inscricao_fim", "isencao_inicio",
                              "data_prova"}
          /\ \A f \in DOMAIN result : result[f] = NULL \/ IsIsoDate(result[f])
          /\ pc # "done" => CanStep)
    /\ [][Before(Progress, Progress')]_vars

\* A returned result with all four fields set.
C4_AllFieldsSet == pc = "done" /\ \A f \in DOMAIN result : result[f] # NULL

\* C5: the list handed to resolution is the list extracted from the section
\* when a section was found and gives 3 or more events, and otherwise the
\* list extracted from the whole text, nothing else.
C5_EventList ==
    pc = "partition" =>
        events = IF /\ cronograma_section # <<>>
                    /\ Len(extract_all_dates(cronograma_section)) >= 3
                 THEN extract_all_dates(cronograma_section)
                 ELSE extract_all_dates(input)

\* A section was found, gave one or two events, and resolution gets the other
\* list, that of the whole text.
C5_SectionDiscarded ==
    /\ pc = "partition"
    /\ cronograma_section # <<>>
    /\ Len(extract_all_dates(cronograma_section)) \in {1, 2}
    /\ events = extract_all_dates(input)
    /\ \E i \in 1..Len(extract_all_dates(cronograma_section)) :
          \A j \in 1..Len(events) : events[j] # extract_all_dates(cronograma_section)[i]

\* The part of the scanned sequence that resolution has gone through.
Resolved ==
    CASE pc = "high" -> SubSeq(high_confidence, 1, ri - 1)
      [] pc = "low" -> high_confidence \o SubSeq(low_confidence, 1, ri - 1)
      [] pc \in {"finish", "done"} -> Scanned
      [] OTHER -> <<>>

KeyA(e) == DateKey(e.data_inicio, e.data_fim, Slice(e.evento, 0, KeyPrefix))

KeyB(e) == DateKey(e.data_inicio, e.data_fim, TipoText(e.tipo))

SameStartEndCategory(e, f) ==
    e.data_inicio = f.data_inicio /\ e.data_fim = f.data_fim /\ e.tipo = f.tipo

\* C7 as stated: the list extract_all_dates returns never holds two events
\* with the same start, end and category.
C7_NoSameStartEndCategory ==
    Extracting /\ x.pc = "ret" =>
        \A i, j \in 1..Len(x.results) :
            i < j => ~SameStartEndCategory(x.results[i], x.results[j])

\* C7, amended: an event is added to the list only when its key is not yet in
\* the shared set, and its key is then added: the key is start, end and the
\* first 50 characters of the label for Strategy 1, and start, end and
\* category for Strategy 2. So the events of a call all have different keys
\* (the set has one key per event), which does not keep two events of the
\* same start, end and category out of the list.
C7_KeysDistinct ==
    /\ [](Extracting => Cardinality(x.seen_dates) = Len(x.results))
    /\ [][Extracting /\ x.pc \in {"A", "Bhit"} /\ x'.results # x.results =>
            /\ x'.results = Append(x.results, x'.results[Len(x'.results)])
            /\ x'.seen_dates # x.seen_dates
            /\ x'.seen_dates =
                  x.seen_dates \cup
                    {IF x.pc = "A" THEN KeyA(x'.results[Len(x'.results)])
                                   ELSE KeyB(x'.results[Len(x'.results)])}]_vars

\* A returned list with two events of the same start, end and category.
C7_SameTwice ==
    /\ Extracting /\ x.pc = "ret"
    /\ \E i, j \in 1..Len(x.results) :
          i < j /\ SameStartEndCategory(x.results[i], x.results[j])

\* C8: Strategy 2 emits an event only from the first date hit of a keyword
\* occurrence, never from a later hit of its forward window, whether or not
\* the first hit's key was already seen.
C8_FirstHitOnly ==
    [][Extracting /\ x.pc = "Bhit" /\ x'.results # x.results => x.hj = 1]_vars

\* The date block the running strategy is about to parse.
CurrentBlock ==
    IF x.pc = "A" THEN SubSeq(x.text, x.matches[x.mi].b, x.matches[x.mi].e - 1)
    ELSE x.hits[x.hj]

HasInvalidDate(block) ==
    \E i \in 1..Len(block) : IsDate(block[i]) /\ ~IsIsoDate(IsoOf(block[i].v))

\* C9: a date block with a calendar-invalid date is unparseable as a whole:
\* parse_date_block gives no non-null component for it and the strategy that
\* found it emits no event for it.
C9_NoPartialResult ==
    [][Extracting /\ x.pc \in {"A", "Bhit"} /\ HasInvalidDate(CurrentBlock)
         => /\ parse_date_block(CurrentBlock) = <<NULL, NULL>>
            /\ x'.results = x.results]_vars

HasAny(label, kws) == \E kw \in kws : Contains(label, kw)

ExemptionKeywords == {"isen", "isenCA", "isenc"}

RegistrationKeywords == {"inscri", "inscric"}

ExamKeywords == {"prova", "aplicac", "aplicaC", "realizac", "realizaC"}

\* C10: the category of a label is isencao if it holds an exemption keyword,
\* else inscricao if it holds a registration keyword, else prova if it holds
\* an exam, application or realization keyword, else resultado, else recurso,
\* else publicacao, else outro; "Homologação do resultado" is resultado.
C10_Priority ==
    pc = "classified" =>
        LET c == events[1].tipo
            ex == HasAny(input, ExemptionKeywords)
            reg == HasAny(input, RegistrationKeywords)
            exam == HasAny(input, ExamKeywords)
            res == Contains(input, "resultado")
            rec == Contains(input, "recurso")
            pub == Contains(input, "publica")
        IN  /\ ex => c = "isencao"
            /\ ~ex /\ reg => c = "inscricao"
            /\ ~ex /\ ~reg /\ exam => c = "prova"
            /\ ~ex /\ ~reg /\ ~exam /\ res => c = "resultado"
            /\ ~ex /\ ~reg /\ ~exam /\ ~res /\ rec => c = "recurso"
            /\ ~ex /\ ~reg /\ ~exam /\ ~res /\ ~rec /\ pub => c = "publicacao"
            /\ ~ex /\ ~reg /\ ~exam /\ ~res /\ ~rec /\ ~pub => c = "outro"
            /\ input = <<T("HomologaCAo_do"), T("sp"), T("resultado")>> => c = "resultado"

\* A classified label that holds a registration keyword before an exemption
\* keyword, and is isencao.
C10_BothKeywords ==
    /\ pc = "classified"
    /\ Len(input) = 3
    /\ HasAny(<<input[1]>>, RegistrationKeywords)
    /\ HasAny(<<input[3]>>, ExemptionKeywords)
    /\ events[1].tipo = "isencao"

\* The dates of a block, in order, and whether they are all real days.
DatesOf(block) == SelectSeq(block, IsDate)

AllValid(block) == \A i \in 1..Len(block) : IsDate(block[i]) => ValidDMY(block[i].v)

\* The pair parse_date_block returned for the drawn block.
Parsed == <<events[1].data_inicio, events[1].data_fim>>

\* C11: for a block whose dates are all real days, parse_date_block returns
\* both dates of an Entre phrase with two dates, in either letter case and
\* the same for the connectors "e" and "a"; the date and null for an Entre
\* phrase with one date; both dates of "D1 a D2", also when D1 = D2; and
\* the date and null for a single date.
C11_ParsedBlock ==
    pc = "parsed" /\ AllValid(input) =>
        /\ Is("entre", input[1]) /\ Len(DatesOf(input)) = 2 =>
              /\ Parsed = <<IsoOf(DatesOf(input)[1].v), IsoOf(DatesOf(input)[2].v)>>
              /\ Parsed = parse_date_block(EntreBlock("Entre", input[3], "e", input[7]))
              /\ Parsed = parse_date_block(EntreBlock("Entre", input[3], "a", input[7]))
        /\ Is("entre", input[1]) /\ Len(DatesOf(input)) = 1 =>
              Parsed = <<IsoOf(DatesOf(input)[1].v), NULL>>
        /\ Len(input) = 5 /\ input = Range(input[1], input[5]) =>
              Parsed = <<IsoOf(input[1].v), IsoOf(input[5].v)>>
        /\ Len(input) = 1 => Parsed = <<IsoOf(input[1].v), NULL>>

\* The phrase "entre D1 a D2" with two different real days has been parsed.
C11_EntreWithA ==
    /\ pc = "parsed"
    /\ AllValid(input)
    /\ Len(input) = 7 /\ input[1].k = "entre" /\ input[5].k = "a"
    /\ input[3] # input[7]
    /\ Parsed = <<IsoOf(input[3].v), IsoOf(input[7].v)>>

\* C12: the list grows at its end only; Strategy 1 goes through the date
\* matches in text order, adding its events, and once it has finished it is
\* not entered again; Strategy 2 then goes through the keywords in the order
\* inscricao, isencao, prova (application), prova (realization) and, for one
\* keyword, through its occurrences in text order, adding events of that
\* keyword's category.
C12_OutputOrder ==
    /\ [](/\ [i \in 1..Len(keywords) |-> keywords[i].tipo]
               = <<"inscricao", "isencao", "prova", "prova">>
          /\ Extracting =>
                /\ \A i, j \in 1..Len(x.matches) : i < j => x.matches[i].b < x.matches[j].b
                /\ \A i, j \in 1..Len(x.occs) : i < j => x.occs[i] < x.occs[j])
    /\ [][Extracting /\ x.pc \in {"A", "Bkw", "Bocc", "Bhit"} =>
            /\ \/ x'.results = x.results
               \/ /\ x.pc \in {"A", "Bhit"}
                  /\ x'.results = Append(x.results, x'.results[Len(x'.results)])
                  /\ x.pc = "Bhit" => x'.results[Len(x'.results)].tipo = keywords[x.kwi].tipo
            /\ x'.matches = x.matches
            /\ x.pc = "A" => \/ x'.pc = "A" /\ x'.mi = x.mi + 1
                             \/ x'.pc = "Bkw" /\ x.mi = Len(x.matches)
            /\ x.pc # "A" =>
                  /\ x'.pc # "A"
                  /\ \/ x'.kwi = x.kwi + 1 /\ x'.pc = "Bkw"
                     \/ x'.kwi = x.kwi /\ x'.oi = x.oi + 1 /\ x'.pc = "Bocc"
                     \/ x'.kwi = x.kwi /\ x'.oi = x.oi /\ x'.occs = x.occs /\ x'.pc = "Bhit"
                     \/ x'.pc = "ret" /\ x.kwi > Len(keywords)]_vars

\* A returned list with Strategy 1 events followed by a Strategy 2 event of
\* the first keyword and a later one of an exam keyword.
C12_BothStrategies ==
    /\ Extracting /\ x.pc = "ret"
    /\ Len(x.matches) >= 2 /\ Len(x.results) >= 2
    /\ x.results[1].data_inicio # x.results[2].data_inicio
    /\ \E i, j \in (Len(x.matches) + 1)..Len(x.results) :
          i < j /\ x.results[i].tipo = "inscricao" /\ x.results[j].tipo = "prova"

\* C13: a call's result is a function of its own text, whatever the other
\* call was made on and whether that call returned before this one started
\* or not; so two calls on the same text return the same mapping.
C13_Deterministic ==
    /\ pc = "done" => result = extract_from_text(input)
    /\ pc = "done" /\ waiting[1].pc = "done" /\ input = waiting[1].input =>
          result = waiting[1].result

\* Both calls were made on the same text with a registration line and have
\* returned the same dates.
C13_SameTwice ==
    /\ pc = "done" /\ waiting[1].pc = "done"
    /\ input = waiting[1].input
    /\ result.inscricao_inicio # NULL
    /\ result = waiting[1].result

\* C14: whatever the interleaving, a step of the running call leaves the
\* frame of the other call as it is (its de-duplication set, event list and
\* result mapping included), a thread switch changes neither frame, and
\* each call ends with the event list and the result it has when run alone.
C14_CallsIsolated ==
    /\ [](pc = "done" /\ Len(input) > 0 => events = events_of(input))
    /\ [](pc = "done" => result = extract_from_text(input))
    /\ [][\/ waiting' = waiting
          \/ waiting' = <<Running>> /\ Running' = waiting[1]]_vars

\* Both calls are inside extract_all_dates, each with keys in its own set.
C14_BothExtracting ==
    /\ Extracting
    /\ waiting[1].pc \in {"in_section", "in_full"}
    /\ x.seen_dates # {} /\ waiting[1].x.seen_dates # {}
    /\ x.seen_dates \cap waiting[1].x.seen_dates = {}

\* C15: the text normalize_text returns has no three newlines in a row, no
\* tab, no two spaces in a row and no whitespace at its start or end.
C15_Normalized ==
    pc = "normalized" =>
        /\ \A i \in 1..(Len(x.text) - 2) :
              ~(x.text[i].k = "nl" /\ x.text[i + 1].k = "nl" /\ x.text[i + 2].k = "nl")
        /\ \A i \in 1..Len(x.text) : x.text[i].k # "tab"
        /\ \A i \in 1..(Len(x.text) - 1) : ~(x.text[i].k = "sp" /\ x.text[i + 1].k = "sp")
        /\ Len(x.text) > 0 => ~IsSpace(x.text[1]) /\ ~IsSpace(x.text[Len(x.text)])

\* A text that began with whitespace and had three newlines in a row after
\* its date has been normalized; two of the newlines are left.
C15_NewlinesCollapsed ==
    /\ pc = "normalized"
    /\ Len(input) = 6 /\ IsSpace(input[1]) /\ IsDate(input[2])
    /\ \A i \in 3..5 : input[i].k = "nl"
    /\ x.text = <<input[2], T("nl"), T("nl"), input[6]>>

\* s holds the dates s[i] and s[j] with only whitespace and an "a" followed
\* by a line break between them.
BrokenRange(s, i, j) ==
    /\ i < j /\ IsDate(s[i]) /\ IsDate(s[j])
    /\ \A k \in (i + 1)..(j - 1) : s[k].k = "a" \/ IsSpace(s[k])
    /\ \E k, l \in (i + 1)..(j - 1) : k < l /\ s[k].k = "a" /\ s[l].k = "nl"

\* s holds block from its lexeme i on.
HoldsAt(s, i, block) == i + Len(block) - 1 <= Len(s) /\ SubSeq(s, i, i + Len(block) - 1) = block

\* C16: when the input holds a date D1, an "a", a line break and a date D2
\* in that order, the normalized text holds "D1 a D2", whatever follows D2.
C16_BrokenRangeJoined ==
    pc = "normalized" =>
        \A i, j \in 1..Len(input) :
            BrokenRange(input, i, j) =>
                \E h \in 1..Len(x.text) : HoldsAt(x.text, h, Range(input[i], input[j]))

\* C17: in the mapping extract_vagas returns, a pcd and a total that are
\* both set have pcd <= total: a pcd read from the text that is above the
\* total read from it is returned as None, and one that is equal to the
\* total, or below it, is returned as read.
C17_PcdWithinTotal ==
    pc = "vagas_done" =>
        /\ result.total # NoCount /\ result.pcd # NoCount => result.pcd <= result.total
        /\ result.total # NoCount /\ pcd_match(input) > result.total =>
              result.pcd = NoCount
        /\ result.total # NoCount /\ pcd_match(input) <= result.total =>
              result.pcd = pcd_match(input)

\* A returned mapping whose pcd equals its total, both read as 5.
C17_PcdEqualsTotal ==
    pc = "vagas_done" /\ result.total = 5 /\ result.pcd = 5 /\ pcd_match(input) = 5

\* C18: without --apply the run is a dry-run: no step of it creates or
\* changes a file (no summary is rewritten, no backup and no reviewed
\* example is written), and a row that has changes only gets its planned
\* changes printed.
C18_DryRunWritesNothing ==
    /\ [](~input.apply => disk.backups = <<>> /\ disk.reviewed_examples = <<>>)
    /\ [][~input.apply =>
            /\ disk' = disk
            /\ stdout' # stdout /\ stdout'[Len(stdout')].msg = " - " =>
                  /\ pc' = "main"
                  /\ stdout' = stdout \o PlannedLines(Head(input.csv).file,
                                   Planned(Head(input.csv),
                                           disk.summaries[Head(input.csv).file]).changes)]_vars

\* A dry-run that has ended after it printed the planned changes of a row.
C18_DryRunPlanned ==
    /\ ~input.apply
    /\ pc = "exit"
    /\ \E i \in 1..Len(stdout) : stdout[i].msg = "Planned changes for"

\* C19: every block that DATE_PATTERN matches from end to end as a range
\* "D1 a D2" with two real days (whatever the case of the "a" and the
\* whitespace around it) is parsed by parse_date_block to (D1, D2), both
\* set, so that the block yields an event.
C19_RangeBlockParsed ==
    /\ pc = "parsed"
    /\ AllValid(input)
    /\ IsDate(input[1]) /\ Len(DatesOf(input)) = 2
    /\ DateBlocks(input) = <<input>>
    => Parsed = <<IsoOf(DatesOf(input)[1].v), IsoOf(DatesOf(input)[2].v)>>

\* The text whose events were resolved (lines 322-330), and how many of the
\* events Strategy 1 added.
ResolvedText ==
    IF cronograma_section # <<>> /\ ~NeedsFallback(extract_all_dates(cronograma_section))
    THEN cronograma_section ELSE input

FromA == 1..Len(StrategyAResults(ResolvedText))

FromB == (Len(StrategyAResults(ResolvedText)) + 1)..Len(events)

\* C20: when Strategy 1 (backward context) and Strategy 2 (keyword forward)
\* each added a registration event, or each an exemption event, and the
\* dates of the one strategy's events differ from those of the other's, the
\* field holds the dates of a Strategy 2 event.
C20_KeywordBasedPreferred ==
    pc = "done" =>
        \A tipo \in {"inscricao", "isencao"} :
            /\ \E i \in FromA : events[i].tipo = tipo
            /\ \E j \in FromB : events[j].tipo = tipo
            /\ \A i \in FromA, j \in FromB :
                  events[i].tipo = tipo /\ events[j].tipo = tipo =>
                      events[i].data_inicio # events[j].data_inicio
            => \E j \in FromB :
                  /\ events[j].tipo = tipo
                  /\ tipo = "inscricao" =>
                        /\ result.inscricao_inicio = events[j].data_inicio
                        /\ result.inscricao_fim = events[j].data_fim
                  /\ tipo = "isencao" => result.isencao_inicio = events[j].data_inicio

\* The heading lexemes of the drawn document that have a line break after
\* them, the length of the text from the line after heading h up to lexeme
\* f, and whether that text is a body the section regex can capture.
HeadingLines ==
    {h \in 1..Len(input) : HasKw(input[h], "reCrono") /\ HeadingEnd(input, h) <= Len(input)}

BodyLen(h, f) == CharLen(SubSeq(input, HeadingEnd(input, h) + 1, f - 1))

Fits(h, f) ==
    /\ f \in (HeadingEnd(input, h) + 1)..(Len(input) + 1)
    /\ EndsSection(input, f)
    /\ BodyLen(h, f) >= SectionMin
    /\ BodyLen(h, f) <= SectionMax

\* C21 as stated: the locator returns nothing only when there is no heading
\* line; with one, it returns the text after the first heading line up to
\* the first numbered heading, annex marker or end of text, cut to 12,000
\* characters, however short or long that text is.
C21_SectionWheneverHeading ==
    pc = "section" =>
        IF HeadingLines = {} THEN cronograma_section = <<>>
        ELSE cronograma_section =
                 Slice(SubSeq(input, HeadingEnd(input, Least(HeadingLines)) + 1,
                              Least({f \in (HeadingEnd(input, Least(HeadingLines)) + 1)
                                               ..(Len(input) + 1) :
                                        EndsSection(input, f)}) - 1),
                       0, SectionMax)

\* C21, amended: a located section is the text after a heading line up to a
\* numbered heading, annex marker or end of text, it holds 100 to 12,000
\* characters, it is the shortest such text of its heading, and no earlier
\* heading has one; the locator returns nothing exactly when no heading line
\* is followed by such a text of 100 to 12,000 characters.
C21_SectionOfBoundedLength ==
    pc = "section" =>
        /\ cronograma_section # <<>> =>
              \E h \in HeadingLines : \E f \in 1..(Len(input) + 1) :
                 /\ Fits(h, f)
                 /\ cronograma_section = SubSeq(input, HeadingEnd(input, h) + 1, f - 1)
                 /\ \A g \in 1..(f - 1) : ~Fits(h, g)
                 /\ \A k \in HeadingLines : k < h => \A g \in 1..(Len(input) + 1) : ~Fits(k, g)
        /\ cronograma_section = <<>> =>
              \A h \in HeadingLines : \A f \in 1..(Len(input) + 1) : ~Fits(h, f)

\* A section located in a document with an annex: it ends before the annex.
C21_SectionBeforeAnnex ==
    /\ pc = "section"
    /\ cronograma_section # <<>>
    /\ Contains(input, "reAnexo") /\ ~Contains(cronograma_section, "reAnexo")

\* The date blocks of the normalized text that lie, from their first to
\* their last character, within the LookForward characters that start at
\* the keyword occurrence being visited.
BlocksInWindow ==
    {SubSeq(x.text, x.matches[i].b, x.matches[i].e - 1) : i \in
        {j \in 1..Len(x.matches) :
            /\ OffsetOf(x.text, x.matches[j].b) >= x.occs[x.oi]
            /\ OffsetOf(x.text, x.matches[j].e) <= x.occs[x.oi] + LookForward}}

\* C22: the dates of every event Strategy 2 adds are the parse of a whole
\* date block of the normalized text within the 200 characters from the
\* keyword: no range is cut by the end of the window into a single date.
C22_WholeBlockInWindow ==
    [][Extracting /\ x.pc = "Bhit" /\ x'.results # x.results =>
          \E block \in BlocksInWindow :
              parse_date_block(block) = <<x'.results[Len(x'.results)].data_inicio,
                                         x'.results[Len(x'.results)].data_fim>>]_vars

\* The whole date blocks within the LookForward characters from the start
\* of lexeme i of the normalized text.
BlocksAfter(i) ==
    {SubSeq(x.text, x.matches[j].b, x.matches[j].e - 1) : j \in
        {h \in 1..Len(x.matches) :
            /\ x.matches[h].b > i
            /\ OffsetOf(x.text, x.matches[h].e) <= OffsetOf(x.text, i) + LookForward}}

\* C23: when extract_all_dates returns, every occurrence of the registration
\* keyword, singular ("inscrição", "inscricao") or plural ("Inscrições"),
\* that is followed within 200 characters by a date block whose start
\* parses has a registration event of Strategy 2 with the dates of such a
\* block.
C23_EveryFormFires ==
    Extracting /\ x.pc = "ret" =>
        \A i \in 1..Len(x.text) :
            /\ HasKw(x.text[i], "inscri")
            /\ \E block \in BlocksAfter(i) : parse_date_block(block)[1] # NULL
            => \E j \in (Len(StrategyAResults(x.arg)) + 1)..Len(x.results) :
                  /\ x.results[j].tipo = "inscricao"
                  /\ \E block \in BlocksAfter(i) :
                        parse_date_block(block) = <<x.results[j].data_inicio,
                                                   x.results[j].data_fim>>

\* The context of the date block that starts at lexeme b within its own
\* row: the text between the last line break or date before b and b, its
\* last LookBack characters at most.
OwnRowContext(text, b) ==
    ContextBefore(SubSeq(text,
                         Greatest({j \in 1..(b - 1) : text[j].k \in {"nl", "date"}} \cup {0}) + 1,
                         b - 1),
                  OffsetOf(text, b)
                  - OffsetOf(text, Greatest({j \in 1..(b - 1) :
                                               text[j].k \in {"nl", "date"}} \cup {0}) + 1))

\* C24: the description of every event Strategy 1 adds is the label taken
\* from the context of the date within its own row (nothing of an earlier
\* row, no earlier date), and the event's category is the category of that
\* label.
C24_OwnRowLabel ==
    [][Extracting /\ x.pc = "A" /\ x'.results # x.results =>
          /\ x'.results[Len(x'.results)].evento
                = CleanLabel(OwnRowContext(x.text, x.matches[x.mi].b))
          /\ x'.results[Len(x'.results)].tipo
                = classify_event(CleanLabel(OwnRowContext(x.text, x.matches[x.mi].b)))]_vars

\* C25: a call sends at most max_retries = 5 GET requests; a request after
\* the first is sent only after a 5xx response or a connection or timeout
\* error, and only while fewer than 5 were sent; a 4xx response ends the
\* call with an empty list and no further request; after a failed fifth
\* request the call has returned an empty list and no page is parsed; a
\* page is parsed only after a response below 400.
C25_AtMostFiveRequests ==
    /\ [](/\ x.sent <= max_retries
          /\ pc = "get" /\ x.sent >= 1 =>
                /\ IsServerError(x.last) \/ IsConnectionFailure(x.last)
                /\ x.sent < max_retries
          /\ IsClientError(x.last) => pc = "returned" /\ result = <<>>
          /\ x.sent = max_retries /\ (IsServerError(x.last) \/ IsConnectionFailure(x.last)) =>
                pc = "returned" /\ result = <<>>
          /\ pc = "parse" => x.last.kind = "response" /\ x.last.status < 400)
    /\ [][/\ x'.sent \in {x.sent, x.sent + 1}
          /\ x'.sent = x.sent + 1 => pc = "get"
          /\ pc = "returned" => x'.sent = x.sent]_vars

\* A call that returned the empty list after five requests, a 5xx response
\* among them and a connection failure the last.
C25_GaveUpAfterFive ==
    /\ pc = "returned" /\ result = <<>>
    /\ x.sent = max_retries
    /\ IsConnectionFailure(x.last) /\ IsServerError(x.response)
    /\ now = 15

\* C26: a step that changes a summary file is the write of apply_row, it
\* changes the summary of the row only, and the backup directory then holds
\* a copy of that summary as it was before the write, made in this call;
\* once the backup has raised, nothing on the disk changes any more.
C26_BackupBeforeWrite ==
    [][/\ disk'.summaries # disk.summaries =>
             /\ pc = "write"
             /\ <<x.filename, x.timestamp>> \in DOMAIN disk.backups
             /\ disk.backups[<<x.filename, x.timestamp>>] = disk.summaries[x.filename]
             /\ disk'.backups = disk.backups
             /\ \A f \in DOMAIN disk.summaries \ {x.filename} :
                    disk'.summaries[f] = disk.summaries[f]
       /\ pc = "raised" => disk' = disk
       /\ pc = "backup" /\ pc' = "raised" => disk' = disk]_vars

\* A summary has been overwritten and its backup holds what it held before.
C26_OverwrittenWithBackup ==
    /\ pc = "export"
    /\ <<x.filename, x.timestamp>> \in DOMAIN disk.backups
    /\ disk.backups[<<x.filename, x.timestamp>>] # disk.summaries[x.filename]
    /\ disk.summaries[x.filename] = x.data

\* The name of the banca a summary value holds.
NomeOf(banca) ==
    IF banca.is = "dict" THEN banca.nome ELSE IF banca.is = "str" THEN banca.str ELSE <<>>

\* The row apply_row is called with next names a summary on the disk and a
\* banca other than the one the summary holds.
BancaDiffers ==
    /\ pc = "main"
    /\ input.csv # <<>>
    /\ Head(input.csv).file \in DOMAIN disk.summaries
    /\ Strip(Head(input.csv).banca) # <<>>
    /\ NomeOf(disk.summaries[Head(input.csv).file]["metadata.banca"])
          # Strip(Head(input.csv).banca)

\* C27: for a row whose banca is non-empty and differs from the nome of
\* metadata.banca in the summary, apply_row prints a planned change of
\* metadata.banca to the CSV value and, with --apply, goes on to back up and
\* write it; the write stores a banca with the nome of the change, the tipo
\* the summary had (if it had one) and confianca_extracao 1.0.
C27_BancaChangeRecorded ==
    [][/\ BancaDiffers =>
             /\ \E i \in Len(stdout) + 1 .. Len(stdout') :
                    /\ stdout'[i].k = "metadata.banca"
                    /\ stdout'[i].new.is = "dict"
                    /\ stdout'[i].new.nome = Strip(Head(input.csv).banca)
             /\ input.apply =>
                    /\ pc' = "backup"
                    /\ \E i \in 1..Len(x'.changes) :
                           /\ x'.changes[i].k = "metadata.banca"
                           /\ x'.changes[i].new.nome = Strip(Head(input.csv).banca)
                           /\ x'.changes[i].new.confianca_extracao = 10
                           /\ x'.changes[i].old.is = "dict" /\ x'.changes[i].old.tipo # ""
                                 => x'.changes[i].new.tipo = x'.changes[i].old.tipo
       /\ pc = "write" =>
             \A i \in 1..Len(x.changes) :
                 x.changes[i].k = "metadata.banca" =>
                     disk'.summaries[x.filename]["metadata.banca"] = x.changes[i].new]_vars

\* The result of one first-wins pass over evs in their order.
SinglePass(evs) ==
    UseProvaRange(ResolveAll([result |-> EmptyResult, prova_range |-> <<>>], evs).result,
                  ResolveAll([result |-> EmptyResult, prova_range |-> <<>>], evs).prova_range)

\* C28: every event of tipo inscricao, isencao or prova is a high
\* confidence event, so that once the events are partitioned no event of
\* these tipos is in low_confidence, the low confidence loop leaves the
\* result as it is, and the result returned is the result of one first-wins
\* pass over the events in the order they were found.
C28_TiersAreOnePass ==
    /\ \A i \in 1..Len(events) :
           events[i].tipo \in {"inscricao", "isencao", "prova"} => IsHighConfidence(events[i])
    /\ \A i \in 1..Len(low_confidence) :
           low_confidence[i].tipo \notin {"inscricao", "isencao", "prova"}
    /\ pc = "done" /\ input # <<>> => result = SinglePass(events)

\* C29: at every point of extract_from_text, inscricao_fim is set only if
\* inscricao_inicio is set, and a set inscricao_inicio and the inscricao_fim
\* beside it are the data_inicio and the data_fim of one event of tipo
\* inscricao.
C29_RegistrationFromOneEvent ==
    /\ result.inscricao_fim # NULL => result.inscricao_inicio # NULL
    /\ result.inscricao_inicio # NULL =>
           \E i \in 1..Len(events) :
               /\ events[i].tipo = "inscricao"
               /\ events[i].data_inicio = result.inscricao_inicio
               /\ events[i].data_fim = result.inscricao_fim

\* A result whose registration has no end although a later registration
\* event has one, and a result with an end although another registration
\* event starts on another day.
C29_OtherRegistrationEvents ==
    /\ pc = "done"
    /\ result.inscricao_inicio # NULL
    /\ \E i \in 1..Len(events) :
           /\ events[i].tipo = "inscricao"
           /\ events[i].data_inicio # result.inscricao_inicio
           /\ events[i].data_fim # result.inscricao_fim
           /\ events[i].data_fim # NULL
    /\ result.inscricao_fim = NULL

\* Where in text a range block begins whose start is no calendar day and
\* whose end is one.
BadStartBlocks(text) ==
    {j \in 1..Len(text) - 4 :
        /\ IsDate(text[j]) /\ ~ValidDMY(text[j].v)
        /\ text[j + 1].k = "sp" /\ text[j + 2].k = "a" /\ text[j + 3].k = "sp"
        /\ IsDate(text[j + 4]) /\ ValidDMY(text[j + 4].v)}

\* No event of evs takes a date from the block of text at j, whose end
\* stands nowhere else in text.
NoEventOf(evs, text, j) ==
    (\A k \in 1..Len(text) : k # j + 4 => ~(IsDate(text[k]) /\ text[k].v = text[j + 4].v))
    => \A i \in 1..Len(evs) :
           /\ evs[i].data_inicio # IsoOf(text[j + 4].v)
           /\ evs[i].data_fim # IsoOf(text[j + 4].v)

StartParsed(evs, text) ==
    /\ \A i \in 1..Len(evs) :
           /\ evs[i].data_inicio # NULL
           /\ IsIsoDate(evs[i].data_inicio)
           /\ evs[i].data_fim # NULL => IsIsoDate(evs[i].data_fim)
           /\ evs[i].tipo = "inscricao" =>
                  ResolveEvent([result |-> EmptyResult, prova_range |-> <<>>],
                               evs[i]).result.inscricao_inicio # NULL
           /\ evs[i].tipo = "isencao" =>
                  ResolveEvent([result |-> EmptyResult, prova_range |-> <<>>],
                               evs[i]).result.isencao_inicio # NULL
    /\ \A j \in BadStartBlocks(text) : NoEventOf(evs, text, j)

\* C30: every event extract_all_dates has appended, and every event it
\* returns, has a data_inicio that is set and is a calendar day in ISO
\* form; a range block whose start is no calendar day and whose end is one
\* gives no event; and resolving a returned event stores a start that is
\* set.
C30_StartAlwaysParsed ==
    /\ StartParsed(x.results, normalize_text(input))
    /\ StartParsed(events, normalize_text(input))

\* extract_all_dates has returned events for a text that holds a range
\* block whose start is no calendar day and whose end is one, a day that
\* stands nowhere else in the text.
C30_BadStartSkipped ==
    /\ pc = "partition"
    /\ \E j \in BadStartBlocks(normalize_text(input)) :
           \A k \in 1..Len(normalize_text(input)) :
               IsDate(normalize_text(input)[k]) /\ k # j + 4
                   => normalize_text(input)[k].v # normalize_text(input)[j + 4].v
    /\ events # <<>>

====
